---- MODULE Spec2Model ----
(***************************************************************************)
(* Post record engine (app/models/post/dynamo.py) and the followed-first-  *)
(* story aggregate that consumes its story-change events.                  *)
(*                                                                         *)
(* A stored item is a function from the names of the attributes that are   *)
(* present to their values, as in the key-value store: an attribute that   *)
(* is absent is not in the DOMAIN of the item.  A formatted key such as    *)
(* f'{status}/{expires_at}' is the tuple of its components; timestamps are *)
(* integers (ISO-8601 strings in UTC order as the instants they denote).   *)
(***************************************************************************)
EXTENDS Integers, FiniteSets, Sequences, TLC

VARIABLES
    posts,   \* the canonical post records: postId -> item, for the ids that exist
    ffs,     \* followedFirstStory items of the followed user: follower -> postId
    follows, \* the followers of the followed user: follower -> follow status
    ops,     \* calls in flight: slot or caller -> the caller's position and payload
    views,   \* in-memory post items held by callers: caller -> item read earlier
    last     \* result of the most recent call

vars == <<posts, ffs, follows, ops, views, last>>

----------------------------------------------------------------------------
(* Bounds of the model *)

NumPosts == 3
NumFollowers == 1
MaxInFlight == 2
MaxTime == 4
NumRacingPosts == 2
MaxRacingTime == 3
MaxExpiry == 2
MaxRank == 1
DayLen == 2

PostIds == 1 .. NumPosts
Followers == 1 .. NumFollowers
OpSlots == 1 .. MaxInFlight
Times == 1 .. MaxTime
RacingPosts == 1 .. NumRacingPosts
RacingTimes == 1 .. MaxRacingTime
Expiries == 1 .. MaxExpiry
Ranks == 0 .. MaxRank

\* the user whose stories are followed, and the single author of the engine's posts
FollowedUser == "fduid"
PostType == "TEXT_ONLY"
AlbumId == "aid"

\* app.models.post.enums.PostStatus, as the statuses the lifecycle names
PENDING == "PENDING"
PROCESSING == "PROCESSING"
COMPLETED == "COMPLETED"
ARCHIVED == "ARCHIVED"
DELETING == "DELETING"
Statuses == {PENDING, PROCESSING, COMPLETED, ARCHIVED, DELETING}

\* Python's None for an optional argument or an absent result
None == [k \in {} |-> k]
IsNone(x) == DOMAIN x = {}
\* an optional number: None is kept apart from every number a caller can pass
NoRank == -2
AlbumRankDefault == -1

----------------------------------------------------------------------------
(* Items and the store's write semantics *)

Has(item, name) == name \in DOMAIN item

\* UpdateExpression 'SET a = :a, ...'
SetAttrs(item, upd) == upd @@ item

\* UpdateExpression 'REMOVE a, ...'
RemoveAttrs(item, names) == [k \in DOMAIN item \ names |-> item[k]]

\* pendulum: expires_at.date() and expires_at.time()
DateOf(t) == t \div DayLen
TimeOfDay(t) == t % DayLen

\* A condition expression: the record must exist (or must not), each
\* attribute named in eq must be present with the given value, and each
\* attribute named in gt (when the condition has such a part) must be present
\* with a greater value: a comparison with an absent attribute is false;
\* each attribute named in absentOrEq (when there is such a part) must be
\* absent or have the given value.
CondHolds(store, id, cond) ==
    /\ cond.exists => id \in DOMAIN store
    /\ cond.absent => id \notin DOMAIN store
    /\ \A a \in DOMAIN cond.eq :
          /\ id \in DOMAIN store
          /\ Has(store[id], a)
          /\ store[id][a] = cond.eq[a]
    /\ "gt" \in DOMAIN cond =>
          \A a \in DOMAIN cond.gt :
              /\ id \in DOMAIN store
              /\ Has(store[id], a)
              /\ store[id][a] > cond.gt[a]
    /\ "absentOrEq" \in DOMAIN cond =>
          \A a \in DOMAIN cond.absentOrEq :
              /\ id \in DOMAIN store
              /\ Has(store[id], a) => store[id][a] = cond.absentOrEq[a]

\* UpdateExpression 'ADD a :n, ...': an absent attribute counts from zero
AddAttrs(item, add) ==
    [k \in DOMAIN item \cup DOMAIN add |->
        IF k \in DOMAIN add
        THEN (IF Has(item, k) THEN item[k] ELSE 0) + add[k]
        ELSE item[k]]

\* The effect of one write operation whose condition holds.  An update of
\* a key that has no item creates the item, a delete of it changes nothing.
ApplyWrite(store, w) ==
    LET item == IF w.id \in DOMAIN store THEN store[w.id] ELSE [partitionKey |-> <<"post", w.id>>]
    IN  CASE w.kind = "Put" -> (w.id :> w.item) @@ store
          [] w.kind = "Add" -> (w.id :> AddAttrs(item, w.add)) @@ store
          [] w.kind = "Delete" -> [k \in DOMAIN store \ {w.id} |-> store[k]]
          [] OTHER -> (w.id :> RemoveAttrs(SetAttrs(item, w.set), w.remove)) @@ store

\* client.update_item: a single conditional update.  The client adds
\* attribute_exists(partitionKey) to every update, which is what lets
\* increment_viewed_by_count catch ConditionalCheckFailedException for a post
\* that does not exist.
UpdateItemOk(store, w) == w.id \in DOMAIN store /\ CondHolds(store, w.id, w.cond)

\* client.transact_write_items: all conditions hold and every write is applied,
\* or nothing is.
RECURSIVE ApplyAll(_, _)
ApplyAll(store, ws) ==
    IF ws = <<>> THEN store ELSE ApplyAll(ApplyWrite(store, Head(ws)), Tail(ws))

\* mutant: only the condition of the first write is looked at
TransactOk_first_only(store, ws) == ws # <<>> => CondHolds(store, ws[1].id, ws[1].cond)

TransactOk(store, ws) == \A i \in DOMAIN ws : CondHolds(store, ws[i].id, ws[i].cond)

----------------------------------------------------------------------------
(* PostDynamo: the operations build a write; the store applies it *)

NoTime == 0
NoAlbum == ""
NoPostId == 0

\* mutant: an update does not require the record to exist
Exists_not_required == [exists |-> FALSE, absent |-> FALSE, eq |-> None]
Exists == [exists |-> TRUE, absent |-> FALSE, eq |-> None]
\* mutant: the Put carries no condition, so it replaces a record that exists
NotExists_unconditional == [exists |-> FALSE, absent |-> FALSE, eq |-> None]
NotExists == [exists |-> FALSE, absent |-> TRUE, eq |-> None]
Unconditional == [exists |-> FALSE, absent |-> FALSE, eq |-> None]

Update(id, set, remove, cond) ==
    [kind |-> "Update", id |-> id, set |-> set, remove |-> remove, cond |-> cond]

\* post_item.get('albumId')
AlbumOf(post_item) == IF Has(post_item, "albumId") THEN post_item.albumId ELSE NoAlbum

\* mutant: the per-day expiry keys are left out
ExpiryKeys_without_day(user_id, status, expires_at) ==
    [expiresAt |-> expires_at,
     gsiA1PartitionKey |-> <<"post", user_id>>,
     gsiA1SortKey |-> <<status, expires_at>>]

\* the index keys written with an expiry by transact_add_pending_post and set_expires_at
ExpiryKeys(user_id, status, expires_at) ==
    [expiresAt |-> expires_at,
     gsiA1PartitionKey |-> <<"post", user_id>>,
     gsiA1SortKey |-> <<status, expires_at>>,
     gsiK1PartitionKey |-> <<"post", DateOf(expires_at)>>,
     gsiK1SortKey |-> TimeOfDay(expires_at)]

ExpiryAttrs == {"expiresAt", "gsiA1PartitionKey", "gsiA1SortKey", "gsiK1PartitionKey", "gsiK1SortKey"}
AlbumAttrs == {"albumId", "gsiK3PartitionKey", "gsiK3SortKey"}

transact_add_pending_post(posted_by_user_id, post_id, post_type, posted_at, expires_at, album_id) ==
    LET post_status == PENDING
        post_item ==
            [partitionKey |-> <<"post", post_id>>,
             gsiA2PartitionKey |-> <<"post", posted_by_user_id>>,
             gsiA2SortKey |-> <<post_status, posted_at>>,
             gsiA3PartitionKey |-> <<"post", posted_by_user_id>>,
             gsiA3SortKey |-> <<post_status, post_type, posted_at>>,
             postId |-> post_id,
             postedAt |-> posted_at,
             postedByUserId |-> posted_by_user_id,
             postType |-> post_type,
             postStatus |-> post_status]
        with_expiry ==
            IF expires_at # NoTime
            THEN ExpiryKeys(posted_by_user_id, post_status, expires_at)
            ELSE None
        with_album ==
            IF album_id # NoAlbum
            THEN [albumId |-> album_id,
                  gsiK3PartitionKey |-> <<"post", album_id>>,
                  gsiK3SortKey |-> AlbumRankDefault]
            ELSE None
    IN  [kind |-> "Put", id |-> post_id,
         item |-> with_album @@ with_expiry @@ post_item,
         cond |-> NotExists]

\* mutant: a rank is allowed, not required, when completing a post in an album
SetPostStatusAccepts_rank_optional(post_item, status, album_rank) ==
    (album_rank # NoRank) => (AlbumOf(post_item) # NoAlbum /\ status = COMPLETED)

\* the assertion that opens transact_set_post_status
SetPostStatusAccepts(post_item, status, album_rank) ==
    (album_rank # NoRank) = (AlbumOf(post_item) # NoAlbum /\ status = COMPLETED)

\* mutant: the rank key is written only when a rank is supplied
transact_set_post_status_keeps_rank(post_item, status, original_post_id, album_rank) ==
    LET sets ==
            [postStatus |-> status,
             gsiA2SortKey |-> <<status, post_item.postedAt>>,
             gsiA3SortKey |-> <<status, post_item.postType, post_item.postedAt>>]
        opi == IF original_post_id # NoPostId THEN [originalPostId |-> original_post_id] ELSE None
        ar == IF album_rank # NoRank THEN [gsiK3SortKey |-> album_rank] ELSE None
        a1 == IF Has(post_item, "expiresAt")
              THEN [gsiA1SortKey |-> <<status, post_item.expiresAt>>]
              ELSE None
    IN  Update(post_item.postId, a1 @@ ar @@ opi @@ sets, {}, Exists)

transact_set_post_status(post_item, status, original_post_id, album_rank) ==
    LET album_id == AlbumOf(post_item)
        rank == IF album_rank # NoRank THEN album_rank ELSE AlbumRankDefault
        sets ==
            [postStatus |-> status,
             gsiA2SortKey |-> <<status, post_item.postedAt>>,
             gsiA3SortKey |-> <<status, post_item.postType, post_item.postedAt>>]
        opi == IF original_post_id # NoPostId THEN [originalPostId |-> original_post_id] ELSE None
        ar == IF album_id # NoAlbum THEN [gsiK3SortKey |-> rank] ELSE None
        a1 == IF Has(post_item, "expiresAt")
              THEN [gsiA1SortKey |-> <<status, post_item.expiresAt>>]
              ELSE None
    IN  Update(post_item.postId, a1 @@ ar @@ opi @@ sets, {}, Exists)

\* mutant: the update is not conditioned on the status the caller read
set_expires_at_unconditioned(post_item, expires_at) ==
    Update(post_item.postId,
           ExpiryKeys(post_item.postedByUserId, post_item.postStatus, expires_at),
           {},
           Exists)

set_expires_at(post_item, expires_at) ==
    Update(post_item.postId,
           ExpiryKeys(post_item.postedByUserId, post_item.postStatus, expires_at),
           {},
           [exists |-> FALSE, absent |-> FALSE, eq |-> [postStatus |-> post_item.postStatus]])

\* mutant: the per-day keys are left behind
remove_expires_at_keeps_day_keys(post_id) ==
    Update(post_id, None, {"expiresAt", "gsiA1PartitionKey", "gsiA1SortKey"}, Unconditional)

remove_expires_at(post_id) ==
    Update(post_id, None, ExpiryAttrs, Unconditional)

\* mutant: a rank is allowed, not required, for a completed post
SetAlbumIdAccepts_rank_optional(post_item, album_id, album_rank) ==
    (album_rank # NoRank) => (album_id # NoAlbum /\ post_item.postStatus = COMPLETED)

\* the assertion that opens transact_set_album_id
SetAlbumIdAccepts(post_item, album_id, album_rank) ==
    (album_rank # NoRank) = (album_id # NoAlbum /\ post_item.postStatus = COMPLETED)

\* mutant: the album is set without the condition on the status the caller read
transact_set_album_id_unchecked(post_item, album_id, album_rank) ==
    LET rank == IF album_rank # NoRank THEN album_rank ELSE AlbumRankDefault
    IN  IF album_id # NoAlbum
        THEN Update(post_item.postId,
                    [albumId |-> album_id,
                     gsiK3PartitionKey |-> <<"post", album_id>>,
                     gsiK3SortKey |-> rank],
                    {},
                    Exists)
        ELSE Update(post_item.postId, None, AlbumAttrs, Exists)

transact_set_album_id(post_item, album_id, album_rank) ==
    LET post_status == post_item.postStatus
        rank == IF album_rank # NoRank THEN album_rank ELSE AlbumRankDefault
    IN  IF album_id # NoAlbum
        THEN Update(post_item.postId,
                    [albumId |-> album_id,
                     gsiK3PartitionKey |-> <<"post", album_id>>,
                     gsiK3SortKey |-> rank],
                    {},
                    [exists |-> TRUE, absent |-> FALSE, eq |-> [postStatus |-> post_status]])
        ELSE Update(post_item.postId, None, AlbumAttrs, Exists)

\* the items of index GSI-A1 in one partition whose sort key begins with a status
GsiA1Query(store, user_id, status) ==
    {id \in DOMAIN store :
        /\ Has(store[id], "gsiA1PartitionKey")
        /\ Has(store[id], "gsiA1SortKey")
        /\ store[id].gsiA1PartitionKey = <<"post", user_id>>
        /\ store[id].gsiA1SortKey[1] = status}

\* mutant: the FilterExpression on postId is left out
get_next_ignoring_exclude(store, user_id, exclude_post_id) ==
    LET found == GsiA1Query(store, user_id, COMPLETED)
    IN  IF found = {} THEN None
        ELSE store[CHOOSE id \in found :
                 \A other \in found : store[id].gsiA1SortKey[2] <= store[other].gsiA1SortKey[2]]

\* mutant: the query is read in descending sort-key order
get_next_last_to_expire(store, user_id, exclude_post_id) ==
    LET found == {id \in GsiA1Query(store, user_id, COMPLETED) :
                     exclude_post_id # NoPostId => store[id].postId # exclude_post_id}
    IN  IF found = {} THEN None
        ELSE store[CHOOSE id \in found :
                 \A other \in found : store[id].gsiA1SortKey[2] >= store[other].gsiA1SortKey[2]]

\* The first item of the query in ascending sort-key order, after the filter
\* on postId; None when the query is empty.
get_next_completed_post_to_expire(store, user_id, exclude_post_id) ==
    LET found == {id \in GsiA1Query(store, user_id, COMPLETED) :
                     exclude_post_id # NoPostId => store[id].postId # exclude_post_id}
    IN  IF found = {} THEN None
        ELSE store[CHOOSE id \in found :
                 \A other \in found : store[id].gsiA1SortKey[2] <= store[other].gsiA1SortKey[2]]

----------------------------------------------------------------------------
(* FollowedFirstStoryManager.refresh_after_story_change *)

\* The story-change event of one operation: the post as the caller read it,
\* and the expiry it sets (NoTime: the expiry is removed).
story_prev(o) == IF Has(o.post_item, "expiresAt") THEN o.post_item ELSE None
story_now(o) ==
    IF o.expires_at # NoTime THEN SetAttrs(o.post_item, [expiresAt |-> o.expires_at]) ELSE None

\* of two optional stories, the one that expires first
FirstStory(a, b) ==
    IF IsNone(a) THEN b
    ELSE IF IsNone(b) THEN a
    ELSE IF a.expiresAt < b.expiresAt THEN a ELSE b

StoryId(story) == IF IsNone(story) THEN NoPostId ELSE story.postId

\* mutant: the first story before the change is taken to be the one after it
ffs_prev_as_now(o) == FirstStory(story_now(o), o.next_story)

\* what the first story was before the change and what it is after it, from
\* the event and the owner's next story to expire other than the changed post
ffs_prev(o) == FirstStory(story_prev(o), o.next_story)
ffs_now(o) == FirstStory(story_now(o), o.next_story)

\* set_all / delete_all over the pages of followers (all of them in one page)
WritePointers(pointers, story) ==
    IF IsNone(story) THEN None ELSE [f \in Followers |-> story.postId]

\* the pointers after the write step of a refresh: nothing is written when
\* the first story is the same post before and after the change
RefreshedPointers(pointers, o) ==
    IF StoryId(ffs_prev(o)) = StoryId(ffs_now(o))
    THEN pointers
    ELSE WritePointers(pointers, ffs_now(o))

----------------------------------------------------------------------------
(* Story changes: the store write and the refresh of each are separate steps *)

Finished(o) == o.written /\ o.pc = "done"

\* drop slot i when its operation has completed both steps
Settle(os, i) == IF Finished(os[i]) THEN [j \in DOMAIN os \ {i} |-> os[j]] ELSE os

StoredExpiries(store) == {store[id].expiresAt : id \in {j \in DOMAIN store : Has(store[j], "expiresAt")}}

NewOp(post_item, expires_at) ==
    [post_item |-> post_item, expires_at |-> expires_at,
     written |-> FALSE, pc |-> "start", next_story |-> None]

ExpiriesInUse == StoredExpiries(posts) \cup {ops[j].expires_at : j \in DOMAIN ops}

\* a caller reads post id and starts to set its expiry to expires_at
\* (timestamps have microsecond resolution: no two stories share one)
BeginSetExpiry(i, id, expires_at) ==
    /\ i \notin DOMAIN ops
    /\ id \in DOMAIN posts
    /\ expires_at \notin ExpiriesInUse
    /\ ops' = (i :> NewOp(posts[id], expires_at)) @@ ops
    /\ UNCHANGED <<posts, ffs, follows, views, last>>

\* a caller reads post id, a story, and starts to remove its expiry
BeginRemoveExpiry(i, id) ==
    /\ i \notin DOMAIN ops
    /\ id \in DOMAIN posts
    /\ Has(posts[id], "expiresAt")
    /\ ops' = (i :> NewOp(posts[id], NoTime)) @@ ops
    /\ UNCHANGED <<posts, ffs, follows, views, last>>

\* a caller holds post id as a story that the store does not have (the expiry
\* was set on the in-memory item only) and starts to remove it
BeginRemoveUnstored(i, id, expires_at) ==
    /\ i \notin DOMAIN ops
    /\ id \in DOMAIN posts
    /\ ~Has(posts[id], "expiresAt")
    /\ expires_at \notin ExpiriesInUse
    /\ ops' = (i :> NewOp(SetAttrs(posts[id], [expiresAt |-> expires_at]), NoTime)) @@ ops
    /\ UNCHANGED <<posts, ffs, follows, views, last>>

StoryWrite(o) ==
    IF o.expires_at # NoTime
    THEN set_expires_at(o.post_item, o.expires_at)
    ELSE remove_expires_at(o.post_item.postId)

\* the store write of operation i
WriteStory(i) ==
    /\ i \in DOMAIN ops
    /\ ~ops[i].written
    /\ LET w == StoryWrite(ops[i])
       IN  IF UpdateItemOk(posts, w)
           THEN posts' = ApplyWrite(posts, w) /\ last' = "ok"
           ELSE posts' = posts /\ last' = "ConditionalCheckFailed"
    /\ ops' = Settle([ops EXCEPT ![i].written = TRUE], i)
    /\ UNCHANGED <<ffs, follows, views>>

\* the query of a refresh: the owner's next story to expire other than the changed post
Queried(o) ==
    [o EXCEPT !.pc = "queried",
              !.next_story = get_next_completed_post_to_expire(
                                 posts, o.post_item.postedByUserId, o.post_item.postId)]

RefreshResult(o) ==
    IF StoryId(ffs_prev(o)) = StoryId(ffs_now(o)) THEN "unchanged"
    ELSE IF IsNone(ffs_now(o)) THEN "deleted" ELSE "set"

\* refresh_after_story_change as one step
Refresh(i) ==
    /\ i \in DOMAIN ops
    /\ ops[i].pc = "start"
    /\ ffs' = RefreshedPointers(ffs, Queried(ops[i]))
    /\ last' = RefreshResult(Queried(ops[i]))
    /\ ops' = Settle([ops EXCEPT ![i] = [Queried(@) EXCEPT !.pc = "done"]], i)
    /\ UNCHANGED <<posts, follows, views>>

\* refresh, first step: the query
RefreshQuery(i) ==
    /\ i \in DOMAIN ops
    /\ ops[i].pc = "start"
    /\ ops' = [ops EXCEPT ![i] = Queried(@)]
    /\ UNCHANGED <<posts, ffs, follows, views, last>>

\* refresh, second step: write or delete the followers' pointers
RefreshWrite(i) ==
    /\ i \in DOMAIN ops
    /\ ops[i].pc = "queried"
    /\ ffs' = RefreshedPointers(ffs, ops[i])
    /\ last' = RefreshResult(ops[i])
    /\ ops' = Settle([ops EXCEPT ![i].pc = "done"], i)
    /\ UNCHANGED <<posts, follows, views>>

\* the posts of the followed user, all completed and none a story yet
InitFFS ==
    /\ posts = [id \in PostIds |->
                   LET added == transact_add_pending_post(FollowedUser, id, PostType, id, NoTime, NoAlbum)
                       completed == transact_set_post_status(added.item, COMPLETED, NoPostId, NoRank)
                   IN  ApplyAll(None, <<added, completed>>)[id]]
    /\ ffs = None
    /\ follows = None
    /\ ops = None
    /\ views = None
    /\ last = "none"

BeginStory(ids, times) == \E i \in OpSlots, id \in ids :
    \/ \E e \in times : BeginSetExpiry(i, id, e)
    \/ BeginRemoveExpiry(i, id)
BeginUnstored == \E i \in OpSlots, id \in PostIds, e \in Times : BeginRemoveUnstored(i, id, e)
DoWriteStory == \E i \in OpSlots : WriteStory(i)
DoRefresh == \E i \in OpSlots : Refresh(i)

\* One story change at a time, the refresh after the store write (the order of
\* the post manager: write, then refresh with the items before and after).
BeginAlone == DOMAIN ops = {} /\ (BeginStory(PostIds, Times) \/ BeginUnstored)
RefreshAfterWrite == \E i \in DOMAIN ops : ops[i].written /\ Refresh(i)
NextSerial == BeginAlone \/ DoWriteStory \/ RefreshAfterWrite
SpecSerial == InitFFS /\ [][NextSerial]_vars

\* One story change at a time; its store write and its refresh in either order.
NextPair == BeginAlone \/ DoWriteStory \/ DoRefresh
SpecPair == InitFFS /\ [][NextPair]_vars

\* Concurrent story changes, up to MaxInFlight of them: every store write and
\* every refresh is one step, the steps in any order.
BeginRacing == BeginStory(RacingPosts, RacingTimes)
NextOrder == BeginRacing \/ DoWriteStory \/ DoRefresh
SpecOrder == InitFFS /\ [][NextOrder]_vars

\* Concurrent story changes, each refresh after its own store write, the query
\* and the pointer write of a refresh separate steps.
QueryAfterWrite == \E i \in DOMAIN ops : ops[i].written /\ RefreshQuery(i)
DoRefreshWrite == \E i \in OpSlots : RefreshWrite(i)
NextFFS == BeginRacing \/ DoWriteStory \/ QueryAfterWrite \/ DoRefreshWrite
SpecFFS == InitFFS /\ [][NextFFS]_vars

----------------------------------------------------------------------------
(* Callers of the post record engine: read the post, then build and submit a
   write from the item that was read *)

\* two concurrent requests on one post
Callers == {"c1", "c2"}
EnginePosts == {1}
AlbumIds == {AlbumId}
OptionalRanks == Ranks \cup {NoRank}

\* client.transact_write_items on the writes ws
Transact(ws) ==
    IF TransactOk(posts, ws)
    THEN posts' = ApplyAll(posts, ws) /\ last' = "ok"
    ELSE posts' = posts /\ last' = "TransactionCanceled"

\* client.update_item on the write w
UpdateItem(w) ==
    IF UpdateItemOk(posts, w)
    THEN posts' = ApplyWrite(posts, w) /\ last' = "ok"
    ELSE posts' = posts /\ last' = "ConditionalCheckFailed"

\* an assertion of the operation fails: nothing is built, nothing is written
Rejected == posts' = posts /\ last' = "AssertionError"

\* the request of caller c ends: the item it read is dropped
Done(c) == views' = [d \in DOMAIN views \ {c} |-> views[d]]

AddPost(id, expires_at, album_id) ==
    /\ Transact(<<transact_add_pending_post(FollowedUser, id, PostType, id, expires_at, album_id)>>)
    /\ UNCHANGED <<ffs, follows, ops, views>>

\* get_post: caller c starts a request and holds the stored item
ReadPost(c, id) ==
    /\ c \notin DOMAIN views
    /\ id \in DOMAIN posts
    /\ views' = (c :> posts[id]) @@ views
    /\ UNCHANGED <<posts, ffs, follows, ops, last>>

SetPostStatus(c, status, album_rank) ==
    /\ c \in DOMAIN views
    /\ IF SetPostStatusAccepts(views[c], status, album_rank)
       THEN Transact(<<transact_set_post_status(views[c], status, NoPostId, album_rank)>>)
       ELSE Rejected
    /\ Done(c)
    /\ UNCHANGED <<ffs, follows, ops>>

SetAlbumId(c, album_id, album_rank) ==
    /\ c \in DOMAIN views
    /\ IF SetAlbumIdAccepts(views[c], album_id, album_rank)
       THEN Transact(<<transact_set_album_id(views[c], album_id, album_rank)>>)
       ELSE Rejected
    /\ Done(c)
    /\ UNCHANGED <<ffs, follows, ops>>

SetExpiresAt(c, expires_at) ==
    /\ c \in DOMAIN views
    /\ UpdateItem(set_expires_at(views[c], expires_at))
    /\ Done(c)
    /\ UNCHANGED <<ffs, follows, ops>>

RemoveExpiresAt(id) ==
    /\ UpdateItem(remove_expires_at(id))
    /\ UNCHANGED <<ffs, follows, ops, views>>

\* an empty table
InitEngine ==
    /\ posts = None
    /\ ffs = None
    /\ follows = None
    /\ ops = None
    /\ views = None
    /\ last = "none"

DoReadPost == \E c \in Callers, id \in EnginePosts : ReadPost(c, id)
DoSetPostStatus == \E c \in Callers, status \in Statuses, r \in OptionalRanks : SetPostStatus(c, status, r)

\* Posts in and out of albums: creation, status changes and album changes.
AddToAlbum == \E id \in EnginePosts, album_id \in AlbumIds \cup {NoAlbum} : AddPost(id, NoTime, album_id)
DoSetAlbumId == \E c \in Callers, album_id \in AlbumIds \cup {NoAlbum}, r \in OptionalRanks :
    SetAlbumId(c, album_id, r)
NextAlbum == AddToAlbum \/ DoReadPost \/ DoSetPostStatus \/ DoSetAlbumId
SpecAlbum == InitEngine /\ [][NextAlbum]_vars

\* Stories: creation with or without an expiry, status changes and expiry changes.
AddStory == \E id \in EnginePosts, e \in Expiries \cup {NoTime} : AddPost(id, e, NoAlbum)
SetStatusNoAlbum == \E c \in Callers, status \in Statuses : SetPostStatus(c, status, NoRank)
DoSetExpiresAt == \E c \in Callers, e \in Expiries : SetExpiresAt(c, e)
DoRemoveExpiresAt == \E id \in EnginePosts : RemoveExpiresAt(id)
NextExpiry == AddStory \/ DoReadPost \/ SetStatusNoAlbum \/ DoSetExpiresAt \/ DoRemoveExpiresAt
SpecExpiry == InitEngine /\ [][NextExpiry]_vars

----------------------------------------------------------------------------
(* The followed user's stories, from the source attributes of the records *)

ActiveStories(store) ==
    {id \in DOMAIN store :
        /\ Has(store[id], "expiresAt")
        /\ store[id].postStatus = COMPLETED
        /\ store[id].postedByUserId = FollowedUser}

\* id is the story of the set ids that expires first
ExpiresFirst(store, ids, id) ==
    id \in ids /\ \A other \in ids : store[id].expiresAt <= store[other].expiresAt

\* every follower's pointer references the first of the stories ids to expire,
\* and is absent when there is none
PointersAt(pointers, store, ids) ==
    \A f \in Followers :
        IF ids = {} THEN f \notin DOMAIN pointers
        ELSE f \in DOMAIN pointers /\ ExpiresFirst(store, ids, pointers[f])

PointerCorrect == PointersAt(ffs, posts, ActiveStories(posts))

----------------------------------------------------------------------------
(* Followed-first-story claims *)

IsRemoval(o) == o.expires_at = NoTime
ChangedPost(o) == o.post_item.postId

\* C1: once every store write and every refresh of any sequence of story
\* changes has completed, whatever the order of the steps, each follower's
\* pointer references the followed user's completed story with the least
\* expiresAt, or is absent if there is no story.
C1_ConvergesInAnyOrder == DOMAIN ops = {} => PointerCorrect

\* C2: a refresh for the removal of story p that runs while p is still stored
\* leaves the pointer at the first story to expire other than p (absent if
\* there is none), and the removal that follows does not touch the pointer,
\* which is then correct.
C2_RefreshBeforeRemoval ==
    [][\A i \in DOMAIN ops :
          /\ ( /\ Refresh(i)
               /\ IsRemoval(ops[i])
               /\ ~ops[i].written
               /\ Has(posts[ChangedPost(ops[i])], "expiresAt") )
             => PointersAt(ffs', posts, ActiveStories(posts) \ {ChangedPost(ops[i])})
          /\ ( /\ WriteStory(i)
               /\ IsRemoval(ops[i])
               /\ ops[i].pc = "done" )
             => (ffs' = ffs /\ PointerCorrect')
      ]_vars

\* the refresh of a removal has moved the pointer off the story that is still
\* stored and still the first to expire
C2_Witness ==
    \E i \in DOMAIN ops :
        /\ IsRemoval(ops[i]) /\ ~ops[i].written /\ ops[i].pc = "done"
        /\ ExpiresFirst(posts, ActiveStories(posts), ChangedPost(ops[i]))
        /\ \A f \in Followers : f \in DOMAIN ffs /\ ffs[f] # ChangedPost(ops[i])

\* C3: when each story change is written and then refreshed before the next
\* one starts, the pointer is correct after every refresh.
C3_CorrectAfterEveryRefresh == DOMAIN ops = {} => PointerCorrect

\* a refresh has completed with several stories stored and the pointer set
C3_Witness ==
    /\ DOMAIN ops = {}
    /\ last = "set"
    /\ Cardinality(ActiveStories(posts)) >= 2
    /\ \A f \in Followers : f \in DOMAIN ffs

\* C4: with no pointer and no stored story, a refresh for a story p whose
\* expiresAt is not yet written creates the pointer and makes it reference p.
C4_RefreshBeforeAdd ==
    [][\A i \in DOMAIN ops :
          ( /\ Refresh(i)
            /\ ~IsRemoval(ops[i])
            /\ ~ops[i].written
            /\ ActiveStories(posts) = {}
            /\ DOMAIN ffs = {} )
          => \A f \in Followers : f \in DOMAIN ffs' /\ ffs'[f] = ChangedPost(ops[i])
      ]_vars

C4_Witness ==
    \E i \in DOMAIN ops :
        /\ ~IsRemoval(ops[i]) /\ ~ops[i].written /\ ops[i].pc = "done"
        /\ ActiveStories(posts) = {}
        /\ \A f \in Followers : f \in DOMAIN ffs /\ ffs[f] = ChangedPost(ops[i])

\* C5: when the refreshes of concurrent story changes interleave their query
\* and their pointer write, the pointer is still correct once all have finished.
C5_InterleavedRefreshesConverge ==
    (\A i \in OpSlots : i \notin DOMAIN ops) => PointersAt(ffs, posts, ActiveStories(posts))

\* C6: a refresh that finds the pointers already at the owner's first story to
\* expire leaves them as they are, and a refresh for the removal of a post
\* that is not stored as a story, with no pointer, leaves the pointer absent.
C6_CorrectPointerUntouched ==
    [][\A i \in DOMAIN ops :
          /\ (Refresh(i) /\ ops[i].written /\ PointerCorrect) => ffs' = ffs
          /\ ( /\ Refresh(i)
               /\ IsRemoval(ops[i])
               /\ ~Has(posts[ChangedPost(ops[i])], "expiresAt")
               /\ DOMAIN ffs = {} )
             => DOMAIN ffs' = {}
      ]_vars

\* a refresh has left the pointer alone while another story stays the first
C6_Witness ==
    /\ DOMAIN ops = {}
    /\ last = "unchanged"
    /\ Cardinality(ActiveStories(posts)) >= 2
    /\ PointerCorrect

----------------------------------------------------------------------------
(* Post record engine claims *)

\* the post that the request of caller c is about
PostOf(c) == views[c].postId

\* the callers whose request ends in this step
Finishing == DOMAIN views \ DOMAIN views'

\* caller c completes a successful status-set or album-set in this step
StatusSet(c, status, rank) == last' = "ok" /\ SetPostStatus(c, status, rank)
AlbumSet(c, album_id, rank) == last' = "ok" /\ SetAlbumId(c, album_id, rank)

\* the status component of the owner-status sort key is the post's status
OwnerStatusInSync(item) == item.gsiA2SortKey[1] = item.postStatus

\* the post is in the album-rank index: it carries both keys of that index
InAlbumIndex(item) == Has(item, "gsiK3PartitionKey") /\ Has(item, "gsiK3SortKey")

\* the album-rank index has an entry for the post exactly when the post has an
\* album, and the rank of that entry is the sentinel iff the post is not
\* completed, and the supplied rank otherwise
RankEntryInSync(item, rank) ==
    /\ InAlbumIndex(item) <=> Has(item, "albumId")
    /\ Has(item, "albumId") =>
          /\ item.gsiK3PartitionKey = <<"post", item.albumId>>
          /\ item.gsiK3SortKey = (IF item.postStatus = COMPLETED THEN rank ELSE AlbumRankDefault)

\* C7: after any successful status-set or album-set the owner-status key
\* carries the post's status, and the album-rank index entry of a post in an
\* album is -1 iff the post is not completed, else the supplied rank (a post
\* without album has no entry in that index).
C7_IndexConsistency ==
    [][\A c \in Finishing, rank \in OptionalRanks :
          /\ \A status \in Statuses :
                StatusSet(c, status, rank)
                => /\ OwnerStatusInSync(posts'[PostOf(c)])
                   /\ RankEntryInSync(posts'[PostOf(c)], rank)
          /\ \A album_id \in AlbumIds \cup {NoAlbum} :
                AlbumSet(c, album_id, rank)
                => /\ OwnerStatusInSync(posts'[PostOf(c)])
                   /\ RankEntryInSync(posts'[PostOf(c)], rank)
      ]_vars

\* C8: for a post in an album whose in-memory item is current, the rank key
\* is -1 after creation, the supplied rank after a status-set to COMPLETED and
\* -1 after a status-set to any other status.
C8_RankFollowsStatus ==
    [][/\ \A id \in EnginePosts, album_id \in AlbumIds :
             (AddPost(id, NoTime, album_id) /\ last' = "ok")
             => (posts'[id].postStatus = PENDING /\ posts'[id].gsiK3SortKey = AlbumRankDefault)
       /\ \A c \in Finishing, status \in Statuses, rank \in OptionalRanks :
             ( /\ StatusSet(c, status, rank)
               /\ views[c] = posts[PostOf(c)]
               /\ Has(views[c], "albumId") )
             => posts'[PostOf(c)].gsiK3SortKey = (IF status = COMPLETED THEN rank ELSE AlbumRankDefault)
      ]_vars

\* a post in an album has left COMPLETED and its rank key is the sentinel again
C8_Witness ==
    \E id \in DOMAIN posts :
        /\ last = "ok"
        /\ Has(posts[id], "albumId")
        /\ posts[id].postStatus = ARCHIVED
        /\ posts[id].gsiK3SortKey = AlbumRankDefault
        /\ DOMAIN views = {}

\* C9: transact_set_post_status is rejected with an assertion error, and
\* nothing is written, exactly when (a rank is supplied) differs from (the
\* post has an albumId and the new status is COMPLETED); otherwise the update
\* is built and submitted.
C9_StatusRankAssertion ==
    [][\A c \in Finishing, status \in Statuses, rank \in OptionalRanks :
          SetPostStatus(c, status, rank)
          => /\ (last' = "AssertionError")
                   <=> ((rank # NoRank) # (Has(views[c], "albumId") /\ status = COMPLETED))
             /\ last' = "AssertionError" => posts' = posts
             /\ last' # "AssertionError" => last' \in {"ok", "TransactionCanceled"}
      ]_vars

\* a status-set has been rejected for a post in an album
C9_Witness ==
    /\ last = "AssertionError"
    /\ \E id \in DOMAIN posts : Has(posts[id], "albumId")

\* C10: every stored post has the per-owner and the per-day expiry keys iff it
\* has expiresAt, and then the status prefix of the per-owner sort key is the
\* stored postStatus and its time part the stored expiresAt.
C10_ExpiryKeysInSync ==
    \A id \in DOMAIN posts :
        LET item == posts[id] IN
        /\ \A name \in ExpiryAttrs : Has(item, name) <=> Has(item, "expiresAt")
        /\ Has(item, "expiresAt") =>
              /\ item.gsiA1SortKey[1] = item.postStatus
              /\ item.gsiA1SortKey[2] = item.expiresAt

\* C11: in every committed state a post that has an album carries the rank
\* key -1 exactly when its status is not COMPLETED, whatever the interleaving
\* of the status-sets and album-sets of callers whose item may be stale.
C11_AlbumRankUnderInterleaving ==
    \A id \in DOMAIN posts :
        Has(posts[id], "albumId")
        => ((posts[id].gsiK3SortKey = AlbumRankDefault) <=> (posts[id].postStatus # COMPLETED))

----------------------------------------------------------------------------
(* Counters of a post: flags, likes, comments and unviewed comments *)

MaxCount == 2

\* app.models.like.enums.LikeStatus, and a status that names no like counter
ONYMOUSLY_LIKED == "ONYMOUSLY_LIKED"
ANONYMOUSLY_LIKED == "ANONYMOUSLY_LIKED"
NOT_LIKED == "NOT_LIKED"
LikeStatuses == {ONYMOUSLY_LIKED, ANONYMOUSLY_LIKED, NOT_LIKED}

Counters == {"flagCount", "onymousLikeCount", "anonymousLikeCount", "commentCount", "commentsUnviewedCount"}

\* 'attribute_exists(partitionKey) and <name> > :zero'
ExistsAndPositive(name) == [exists |-> TRUE, absent |-> FALSE, eq |-> None, gt |-> (name :> 0)]

\* transact item {'Update': ...} with UpdateExpression 'ADD ...'
Add(id, add, cond) == [kind |-> "Add", id |-> id, add |-> add, cond |-> cond]

\* mutant: the counter is set to one, not added to
transact_increment_flag_count_set_to_one(post_id) == Update(post_id, [flagCount |-> 1], {}, Exists)

transact_increment_flag_count(post_id) == Add(post_id, [flagCount |-> 1], Exists)

\* mutant: the decrement is not conditioned on the counter being positive
transact_decrement_flag_count_unguarded(post_id) == Add(post_id, [flagCount |-> -1], Exists)

transact_decrement_flag_count(post_id) ==
    Add(post_id, [flagCount |-> -1], ExistsAndPositive("flagCount"))

NoAttribute == ""

\* mutant: every status but the onymous one selects the anonymous counter
like_count_attribute_or_anonymous(like_status) ==
    IF like_status = ONYMOUSLY_LIKED THEN "onymousLikeCount" ELSE "anonymousLikeCount"

\* the if / elif that selects the like counter; no attribute for any other status
like_count_attribute(like_status) ==
    IF like_status = ONYMOUSLY_LIKED THEN "onymousLikeCount"
    ELSE IF like_status = ANONYMOUSLY_LIKED THEN "anonymousLikeCount"
    ELSE NoAttribute

transact_increment_like_count(post_id, like_status) ==
    Add(post_id, (like_count_attribute(like_status) :> 1), Exists)

transact_decrement_like_count(post_id, like_status) ==
    Add(post_id, (like_count_attribute(like_status) :> -1),
        ExistsAndPositive(like_count_attribute(like_status)))

\* mutant: every comment is counted as unviewed
transact_increment_comment_count_as_unviewed(post_id) ==
    Add(post_id, [commentCount |-> 1, commentsUnviewedCount |-> 1], Exists)

transact_increment_comment_count(post_id) == Add(post_id, [commentCount |-> 1], Exists)

\* mutant: the decrement is not conditioned on the counter being positive
transact_decrement_comment_count_unguarded(post_id) == Add(post_id, [commentCount |-> -1], Exists)

transact_decrement_comment_count(post_id) ==
    Add(post_id, [commentCount |-> -1], ExistsAndPositive("commentCount"))

\* increment_comment_count(post_id, viewed=False): the comment also counts as unviewed
increment_comment_count_unviewed(post_id) ==
    Add(post_id, [commentCount |-> 1, commentsUnviewedCount |-> 1], Exists)

decrement_comments_unviewed_count(post_id) ==
    Add(post_id, [commentsUnviewedCount |-> -1], ExistsAndPositive("commentsUnviewedCount"))

clear_comments_unviewed_count(post_id) ==
    Update(post_id, None, {"commentsUnviewedCount"}, Exists)

\* the decrement of the counter called name
DecrementOf(name, post_id) ==
    CASE name = "flagCount" -> transact_decrement_flag_count(post_id)
      [] name = "onymousLikeCount" -> transact_decrement_like_count(post_id, ONYMOUSLY_LIKED)
      [] name = "anonymousLikeCount" -> transact_decrement_like_count(post_id, ANONYMOUSLY_LIKED)
      [] name = "commentCount" -> transact_decrement_comment_count(post_id)
      [] name = "commentsUnviewedCount" -> decrement_comments_unviewed_count(post_id)

\* the stored value of a counter; an attribute never written counts as zero
CountOf(store, id, name) ==
    IF id \in DOMAIN store /\ Has(store[id], name) THEN store[id][name] ELSE 0

\* an increment is submitted; the counters of the model stay within MaxCount
Increment(w) ==
    /\ \A name \in DOMAIN w.add : CountOf(posts, w.id, name) < MaxCount
    /\ UpdateItem(w)
    /\ UNCHANGED <<ffs, follows, ops, views>>

\* a like status that selects no counter raises before anything is built
PostException == posts' = posts /\ last' = "PostException"

IncrementLikeCount(id, like_status) ==
    IF like_count_attribute(like_status) # NoAttribute
    THEN Increment(transact_increment_like_count(id, like_status))
    ELSE PostException /\ UNCHANGED <<ffs, follows, ops, views>>

\* a decrement is submitted: a failed condition is raised to the caller, or
\* with fail_soft logged and answered with None
Decrement(w, fail_soft) ==
    /\ IF UpdateItemOk(posts, w)
       THEN posts' = ApplyWrite(posts, w) /\ last' = "ok"
       ELSE posts' = posts /\ last' = (IF fail_soft THEN "None" ELSE "ConditionalCheckFailed")
    /\ UNCHANGED <<ffs, follows, ops, views>>

DecrementCount(name, id, fail_soft) == Decrement(DecrementOf(name, id), fail_soft)

DecrementLikeCount(id, like_status, fail_soft) ==
    IF like_count_attribute(like_status) # NoAttribute
    THEN Decrement(transact_decrement_like_count(id, like_status), fail_soft)
    ELSE PostException /\ UNCHANGED <<ffs, follows, ops, views>>

ClearCommentsUnviewedCount(id) ==
    /\ UpdateItem(clear_comments_unviewed_count(id))
    /\ UNCHANGED <<ffs, follows, ops, views>>

AddCounted == \E id \in EnginePosts : AddPost(id, NoTime, NoAlbum)
IncrementFlag == \E id \in EnginePosts : Increment(transact_increment_flag_count(id))
IncrementLike == \E id \in EnginePosts, like_status \in LikeStatuses : IncrementLikeCount(id, like_status)
IncrementComment ==
    \E id \in EnginePosts, viewed \in BOOLEAN :
        Increment(IF viewed THEN transact_increment_comment_count(id)
                  ELSE increment_comment_count_unviewed(id))
DoDecrement == \E name \in Counters, id \in EnginePosts, fail_soft \in BOOLEAN : DecrementCount(name, id, fail_soft)
DoDecrementLike ==
    \E id \in EnginePosts, like_status \in LikeStatuses, fail_soft \in BOOLEAN :
        DecrementLikeCount(id, like_status, fail_soft)
ClearUnviewed == \E id \in EnginePosts : ClearCommentsUnviewedCount(id)
NextCounters ==
    \/ AddCounted \/ IncrementFlag \/ IncrementLike \/ IncrementComment
    \/ DoDecrement \/ DoDecrementLike \/ ClearUnviewed
SpecCounters == InitEngine /\ [][NextCounters]_vars

\* every counter that is stored is at least zero
CounterFloor(store) ==
    \A id \in DOMAIN store, name \in Counters : Has(store[id], name) => store[id][name] >= 0

\* the answer to a decrement whose condition failed
Failed(fail_soft) == IF fail_soft THEN "None" ELSE "ConditionalCheckFailed"

\* C12: no counter is ever stored below zero, and a decrement of a counter
\* whose stored value is 0 fails (the conditional-check error, or None with
\* fail_soft) and leaves the stored value as it was.
C12_CounterFloor ==
    [][/\ CounterFloor(posts')
       /\ \A name \in Counters, id \in DOMAIN posts, fail_soft \in BOOLEAN :
             (DecrementCount(name, id, fail_soft) /\ Has(posts[id], name) /\ posts[id][name] = 0)
             => (last' = Failed(fail_soft) /\ posts' = posts)
      ]_vars

\* a decrement with fail_soft has been answered None on a post whose
\* counters all stand at zero
C12_Witness ==
    /\ last = "None"
    /\ \E id \in DOMAIN posts : \A name \in Counters : Has(posts[id], name) /\ posts[id][name] = 0

\* C13: a decrement of a counter that was never written fails like a
\* decrement at 0 and does not create the attribute.
C13_DecrementUnwrittenCounter ==
    [][\A name \in Counters, id \in DOMAIN posts, fail_soft \in BOOLEAN :
          (DecrementCount(name, id, fail_soft) /\ ~Has(posts[id], name))
          => (last' = Failed(fail_soft) /\ posts' = posts /\ ~Has(posts'[id], name))
      ]_vars

\* a decrement has failed on a post none of whose counters was ever written
C13_Witness ==
    /\ last = "ConditionalCheckFailed"
    /\ \E id \in DOMAIN posts : DOMAIN posts[id] \cap Counters = {}

----------------------------------------------------------------------------
(* Creation: callers create posts, alone or together with another write of
   the same transaction *)

\* two posts, as in the tests of creation and of the album query
TwoPosts == {1, 2}

\* a transaction of a create and the flagging of another post
AddPostAndFlag(id, expires_at, album_id, other) ==
    /\ other # id
    /\ CountOf(posts, other, "flagCount") < MaxCount
    /\ Transact(<<transact_add_pending_post(FollowedUser, id, PostType, id, expires_at, album_id),
                  transact_increment_flag_count(other)>>)
    /\ UNCHANGED <<ffs, follows, ops, views>>

Create ==
    \E id \in TwoPosts, e \in Expiries \cup {NoTime}, album_id \in AlbumIds \cup {NoAlbum} :
        AddPost(id, e, album_id)
CreateAndFlag ==
    \E id \in TwoPosts, e \in Expiries \cup {NoTime}, album_id \in AlbumIds \cup {NoAlbum},
       other \in TwoPosts :
        AddPostAndFlag(id, e, album_id, other)
NextCreate == Create \/ CreateAndFlag
SpecCreate == InitEngine /\ [][NextCreate]_vars

\* the item that a create with these arguments puts
Created(id, expires_at, album_id) ==
    transact_add_pending_post(FollowedUser, id, PostType, id, expires_at, album_id).item

\* C14: a transaction with a create for a postId whose record exists is
\* canceled and changes nothing; a create for a new postId stores what it was
\* given; and whatever creates follow, the record keeps the contents of the
\* first successful create.
C14_InsertOnly ==
    [][\A id \in TwoPosts :
          /\ id \in DOMAIN posts
             => /\ id \in DOMAIN posts'
                /\ RemoveAttrs(posts'[id], Counters) = RemoveAttrs(posts[id], Counters)
          /\ \A e \in Expiries \cup {NoTime}, album_id \in AlbumIds \cup {NoAlbum} :
                /\ AddPost(id, e, album_id)
                   => IF id \in DOMAIN posts
                      THEN last' = "TransactionCanceled" /\ posts' = posts
                      ELSE last' = "ok" /\ posts'[id] = Created(id, e, album_id)
                /\ \A other \in TwoPosts :
                      (AddPostAndFlag(id, e, album_id, other) /\ id \in DOMAIN posts)
                      => (last' = "TransactionCanceled" /\ posts' = posts)
      ]_vars

\* a create has been canceled when every postId had its record, and the
\* records differ in their contents
C14_Witness ==
    /\ last = "TransactionCanceled"
    /\ DOMAIN posts = TwoPosts
    /\ \E id, other \in DOMAIN posts : Has(posts[id], "albumId") /\ ~Has(posts[other], "albumId")

C16_SetExpiresAtOptimistic ==
    [][\A c \in Finishing, e \in Expiries :
          SetExpiresAt(c, e)
          => LET id == PostOf(c) IN
             IF posts[id].postStatus # views[c].postStatus
             THEN last' = "ConditionalCheckFailed" /\ posts' = posts
             ELSE /\ last' = "ok"
                  /\ posts'[id] = ExpiryKeys(posts[id].postedByUserId, posts[id].postStatus, e)
                                      @@ posts[id]
      ]_vars

\* set_expires_at has failed on a story whose status another writer changed
C16_Witness ==
    /\ last = "ConditionalCheckFailed"
    /\ \E id \in DOMAIN posts : Has(posts[id], "expiresAt") /\ posts[id].postStatus # PENDING

----------------------------------------------------------------------------
(* Album changes of a post that exists, in any status, in an album or not *)

\* a post that was created and brought to a status, with the rank that the
\* status asks for
StoredPost(id, status, album_id, rank) ==
    LET add == transact_add_pending_post(FollowedUser, id, PostType, id, NoTime, album_id)
        album_rank == IF album_id # NoAlbum /\ status = COMPLETED THEN rank ELSE NoRank
    IN  ApplyAll(None, <<add, transact_set_post_status(add.item, status, NoPostId, album_rank)>>)

InitAlbumSet ==
    /\ \E id \in EnginePosts, status \in Statuses, album_id \in AlbumIds \cup {NoAlbum}, rank \in Ranks :
          posts = StoredPost(id, status, album_id, rank)
    /\ ffs = None
    /\ follows = None
    /\ ops = None
    /\ views = None
    /\ last = "none"

\* album-sets racing with status-sets
NextAlbumSet == DoReadPost \/ DoSetPostStatus \/ DoSetAlbumId
SpecAlbumSet == InitAlbumSet /\ [][NextAlbumSet]_vars

\* album-sets alone
NextAlbumOnly == DoReadPost \/ DoSetAlbumId
SpecAlbumOnly == InitAlbumSet /\ [][NextAlbumOnly]_vars

\* C17: an album-set to a non-null album built from an item whose postStatus
\* is not the stored one is canceled, and albumId and both album index keys
\* stay exactly as they were.
C17_SetAlbumIdOptimistic ==
    [][\A c \in Finishing, album_id \in AlbumIds, rank \in OptionalRanks :
          ( /\ SetAlbumId(c, album_id, rank)
            /\ SetAlbumIdAccepts(views[c], album_id, rank)
            /\ posts[PostOf(c)].postStatus # views[c].postStatus )
          => /\ last' = "TransactionCanceled"
             /\ posts' = posts
      ]_vars

\* an album-set has been canceled and the post is still in no album
C17_Witness ==
    /\ last = "TransactionCanceled"
    /\ \E id \in DOMAIN posts : DOMAIN posts[id] \cap AlbumAttrs = {}

\* C18: transact_set_album_id is rejected with an assertion error, and
\* nothing is written, exactly when (a rank is supplied) differs from (the
\* album is non-null and the post is COMPLETED); a successful set to an album
\* writes albumId, the partition key post/<albumId> and the rank (the supplied
\* one for a COMPLETED post, -1 otherwise) together, and a successful set to
\* null removes the three together.
C18_SetAlbumId ==
    [][\A c \in Finishing, album_id \in AlbumIds \cup {NoAlbum}, rank \in OptionalRanks :
          SetAlbumId(c, album_id, rank)
          => LET id == PostOf(c) IN
             /\ (last' = "AssertionError")
                   <=> ((rank # NoRank) # (album_id # NoAlbum /\ views[c].postStatus = COMPLETED))
             /\ last' = "AssertionError" => posts' = posts
             /\ (last' = "ok" /\ album_id # NoAlbum)
                => posts'[id] =
                      [albumId |-> album_id,
                       gsiK3PartitionKey |-> <<"post", album_id>>,
                       gsiK3SortKey |-> (IF posts[id].postStatus = COMPLETED
                                         THEN rank ELSE AlbumRankDefault)] @@ posts[id]
             /\ (last' = "ok" /\ album_id = NoAlbum)
                => posts'[id] = RemoveAttrs(posts[id], AlbumAttrs)
      ]_vars

\* an album-set without rank has been rejected for a completed post
C18_Witness ==
    /\ last = "AssertionError"
    /\ \E id \in DOMAIN posts : posts[id].postStatus = COMPLETED /\ ~Has(posts[id], "albumId")

----------------------------------------------------------------------------
(* Album-rank index GSI-K3: rank overwrite and the membership query *)

\* mutant: the rank is set only on a completed post
transact_set_album_rank_of_completed(post_id, album_rank) ==
    Update(post_id, [gsiK3SortKey |-> album_rank], {},
           [exists |-> TRUE, absent |-> FALSE, eq |-> [postStatus |-> COMPLETED]])

transact_set_album_rank(post_id, album_rank) ==
    Update(post_id, [gsiK3SortKey |-> album_rank], {}, Exists)

\* the completed argument of the query: None, True or False
Unfiltered == "None"
OnlyCompleted == "True"
NotCompleted == "False"
Filters == {Unfiltered, OnlyCompleted, NotCompleted}

\* mutant: the filter is tested for truth, so completed=False passes with a cursor
GeneratePostIdsAccepts_truthy(completed, after_rank) ==
    completed # OnlyCompleted \/ after_rank = NoRank

\* the assertion that opens generate_post_ids_in_album
GeneratePostIdsAccepts(completed, after_rank) == completed = Unfiltered \/ after_rank = NoRank

\* mutant: the cursor includes the rank it names
generate_post_ids_in_album_from_rank(store, album_id, completed, after_rank) ==
    LET selected ==
            {id \in DOMAIN store :
                /\ Has(store[id], "gsiK3PartitionKey")
                /\ Has(store[id], "gsiK3SortKey")
                /\ store[id].gsiK3PartitionKey = <<"post", album_id>>
                /\ completed = OnlyCompleted => store[id].gsiK3SortKey > -1
                /\ completed = NotCompleted => store[id].gsiK3SortKey = -1
                /\ after_rank # NoRank => store[id].gsiK3SortKey >= after_rank}
    IN  {store[id].partitionKey[2] : id \in selected}

\* the post ids of the items of index GSI-K3 that the key conditions select;
\* an item is in the index when it carries both keys of the index
generate_post_ids_in_album(store, album_id, completed, after_rank) ==
    LET selected ==
            {id \in DOMAIN store :
                /\ Has(store[id], "gsiK3PartitionKey")
                /\ Has(store[id], "gsiK3SortKey")
                /\ store[id].gsiK3PartitionKey = <<"post", album_id>>
                /\ completed = OnlyCompleted => store[id].gsiK3SortKey > -1
                /\ completed = NotCompleted => store[id].gsiK3SortKey = -1
                /\ after_rank # NoRank => store[id].gsiK3SortKey > after_rank}
    IN  {store[id].partitionKey[2] : id \in selected}

\* a status-set built from the item as it is stored
SetStoredPostStatus(id, status, album_rank) ==
    /\ id \in DOMAIN posts
    /\ IF SetPostStatusAccepts(posts[id], status, album_rank)
       THEN Transact(<<transact_set_post_status(posts[id], status, NoPostId, album_rank)>>)
       ELSE Rejected
    /\ UNCHANGED <<ffs, follows, ops, views>>

\* an album-set built from the item as it is stored
SetStoredAlbumId(id, album_id, album_rank) ==
    /\ id \in DOMAIN posts
    /\ IF SetAlbumIdAccepts(posts[id], album_id, album_rank)
       THEN Transact(<<transact_set_album_id(posts[id], album_id, album_rank)>>)
       ELSE Rejected
    /\ UNCHANGED <<ffs, follows, ops, views>>

SetAlbumRank(id, album_rank) ==
    /\ Transact(<<transact_set_album_rank(id, album_rank)>>)
    /\ UNCHANGED <<ffs, follows, ops, views>>

\* a call of generate_post_ids_in_album: rejected by the assertion, or the
\* query of the index is built and handed to the store
GeneratePostIds(album_id, completed, after_rank) ==
    /\ last' = (IF GeneratePostIdsAccepts(completed, after_rank) THEN "queried" ELSE "AssertionError")
    /\ UNCHANGED <<posts, ffs, follows, ops, views>>

CreateInAlbum == \E id \in TwoPosts, album_id \in AlbumIds \cup {NoAlbum} : AddPost(id, NoTime, album_id)
DoSetStoredPostStatus ==
    \E id \in TwoPosts, status \in Statuses, r \in OptionalRanks : SetStoredPostStatus(id, status, r)
DoSetStoredAlbumId ==
    \E id \in TwoPosts, album_id \in AlbumIds \cup {NoAlbum}, r \in OptionalRanks :
        SetStoredAlbumId(id, album_id, r)
DoSetAlbumRank == \E id \in TwoPosts, r \in Ranks : SetAlbumRank(id, r)
DoGeneratePostIds ==
    \E album_id \in AlbumIds, completed \in Filters, after_rank \in OptionalRanks \cup {AlbumRankDefault} :
        GeneratePostIds(album_id, completed, after_rank)
NextRank ==
    \/ CreateInAlbum \/ DoSetStoredPostStatus \/ DoSetStoredAlbumId
    \/ DoSetAlbumRank \/ DoGeneratePostIds
SpecRank == InitEngine /\ [][NextRank]_vars

\* the posts that are in the album, by their albumId
Members(store, album_id) == {id \in DOMAIN store : AlbumOf(store[id]) = album_id}

\* C19: after any sequence of create, status-set, album-set and rank-set
\* operations the query with completed=True returns exactly the COMPLETED
\* posts of the album, the query with completed=False exactly the others,
\* the unfiltered query every post of the album; the filtered results are
\* disjoint and their union is the unfiltered result.
C19_AlbumQueries ==
    \A album_id \in AlbumIds :
        LET every == generate_post_ids_in_album(posts, album_id, Unfiltered, NoRank)
            done == generate_post_ids_in_album(posts, album_id, OnlyCompleted, NoRank)
            rest == generate_post_ids_in_album(posts, album_id, NotCompleted, NoRank)
            members == Members(posts, album_id)
        IN  /\ every = members
            /\ done = {id \in members : posts[id].postStatus = COMPLETED}
            /\ rest = {id \in members : posts[id].postStatus # COMPLETED}
            /\ done \cap rest = {}
            /\ done \cup rest = every

\* C20: generate_post_ids_in_album called with a completed filter (True or
\* False) and an after_rank cursor is rejected with an assertion error at the
\* call, and no query reaches the store.
C20_FilterExcludesCursor ==
    [][\A album_id \in AlbumIds, completed \in Filters \ {Unfiltered},
          after_rank \in Ranks \cup {AlbumRankDefault} :
          GeneratePostIds(album_id, completed, after_rank)
          => (last' = "AssertionError" /\ last' # "queried" /\ posts' = posts)
      ]_vars

\* the query has been rejected: the store holds no post yet, so no other
\* operation can have raised the assertion error
C20_Witness == last = "AssertionError" /\ DOMAIN posts = {}

----------------------------------------------------------------------------
(* Checksum index GSI-K2 *)

MaxPostedAt == 2
PostedTimes == 1 .. MaxPostedAt
Checksums == {"sum1", "sum2"}
NoChecksum == ""

set_checksum(post_id, posted_at_str, checksum) ==
    Update(post_id,
           [checksum |-> checksum,
            gsiK2PartitionKey |-> <<"postChecksum", checksum>>,
            gsiK2SortKey |-> posted_at_str],
           {},
           Unconditional)

\* the items of index GSI-K2 in the partition of a checksum
GsiK2Query(store, checksum) ==
    {id \in DOMAIN store :
        /\ Has(store[id], "gsiK2PartitionKey")
        /\ Has(store[id], "gsiK2SortKey")
        /\ store[id].gsiK2PartitionKey = <<"postChecksum", checksum>>}

\* mutant: the head of the query read backwards
get_first_with_checksum_latest(store, checksum) ==
    LET found == GsiK2Query(store, checksum)
        heads == {id \in found : \A other \in found : store[id].gsiK2SortKey >= store[other].gsiK2SortKey}
    IN  IF found = {} THEN {<<NoPostId, NoTime>>}
        ELSE {<<store[id].partitionKey[2], store[id].gsiK2SortKey>> : id \in heads}

\* query_head: the first item in the order of the sort key; the store does
\* not say which of several items with one sort key comes first, so the
\* answers it can give are a set.  (post_id, posted_at), both None if no item.
get_first_with_checksum(store, checksum) ==
    LET found == GsiK2Query(store, checksum)
        heads == {id \in found : \A other \in found : store[id].gsiK2SortKey <= store[other].gsiK2SortKey}
    IN  IF found = {} THEN {<<NoPostId, NoTime>>}
        ELSE {<<store[id].partitionKey[2], store[id].gsiK2SortKey>> : id \in heads}

\* a post is created at a time of its own
AddPostAt(id, posted_at) ==
    /\ Transact(<<transact_add_pending_post(FollowedUser, id, PostType, posted_at, NoTime, NoAlbum)>>)
    /\ UNCHANGED <<ffs, follows, ops, views>>

\* set_checksum, called with the postedAt of the post when the post exists
SetChecksum(id, posted_at_str, checksum) ==
    /\ id \in DOMAIN posts => posted_at_str = posts[id].postedAt
    /\ IF checksum # NoChecksum
       THEN UpdateItem(set_checksum(id, posted_at_str, checksum))
       ELSE Rejected
    /\ UNCHANGED <<ffs, follows, ops, views>>

CreateAt == \E id \in TwoPosts, posted_at \in PostedTimes : AddPostAt(id, posted_at)
DoSetChecksum ==
    \E id \in TwoPosts, posted_at_str \in PostedTimes, checksum \in Checksums \cup {NoChecksum} :
        SetChecksum(id, posted_at_str, checksum)
NextChecksum == CreateAt \/ DoSetChecksum
SpecChecksum == InitEngine /\ [][NextChecksum]_vars

\* the posts that carry the checksum
Carriers(store, checksum) ==
    {id \in DOMAIN store : Has(store[id], "checksum") /\ store[id].checksum = checksum}

\* C21: get_first_with_checksum returns a post that carries the checksum and
\* whose postedAt no other carrier precedes: of two carriers with distinct
\* postedAt the earlier one, whichever had its checksum set first; and no
\* post when none carries the checksum.
C21_ChecksumEarliestWins ==
    \A checksum \in Checksums :
        LET carriers == Carriers(posts, checksum)
            answers == get_first_with_checksum(posts, checksum)
        IN  IF carriers = {}
            THEN answers = {<<NoPostId, NoTime>>}
            ELSE /\ \A answer \in answers :
                       /\ answer[1] \in carriers
                       /\ answer[2] = posts[answer[1]].postedAt
                       /\ \A other \in carriers : posts[answer[1]].postedAt <= posts[other].postedAt
                 /\ (\A id, other \in carriers : id # other => posts[id].postedAt # posts[other].postedAt)
                    => Cardinality(answers) = 1

\* two posts with distinct postedAt carry one checksum, the one with the
\* greater postId being the earlier
C21_Witness ==
    /\ last = "ok"
    /\ \E checksum \in Checksums :
          /\ Carriers(posts, checksum) = TwoPosts
          /\ posts[2].postedAt < posts[1].postedAt

----------------------------------------------------------------------------
(* The expiry queries: next to expire, the daily sweep and the scan *)

\* cut_off_time=None
NoCutOff == -1
OtherUser == "uid2"
Owners == {FollowedUser, OtherUser}
StoryTimes == RacingTimes
Days == {DateOf(t) : t \in StoryTimes}
TimesOfDay == 0 .. DayLen - 1

\* The orders in which a query can return the items ids by an index whose
\* sort key is the attribute name: ascending, equal keys in any order.
OrderedBy(store, ids, name) ==
    {s \in [1 .. Cardinality(ids) -> ids] :
        \A i, j \in DOMAIN s : i < j => s[i] # s[j] /\ store[s[i]][name] <= store[s[j]][name]}

\* mutant: the cut-off is inclusive
generate_expired_post_pks_by_day_inclusive(store, date, cut_off_time) ==
    LET found == {id \in DOMAIN store :
                     /\ Has(store[id], "gsiK1PartitionKey")
                     /\ Has(store[id], "gsiK1SortKey")
                     /\ store[id].gsiK1PartitionKey = <<"post", date>>
                     /\ cut_off_time # NoCutOff => store[id].gsiK1SortKey <= cut_off_time}
    IN  {[i \in DOMAIN s |-> store[s[i]].partitionKey] : s \in OrderedBy(store, found, "gsiK1SortKey")}

\* The keys of the GSI-K1 partition of the date, in sort-key order: the
\* possible answers.  The sort key is str(time), 'HH:MM:SS[.ffffff]', whose
\* string order is the order of the times; a time given as cut-off is truthy,
\* so only None leaves the 'lt' condition out.
generate_expired_post_pks_by_day(store, date, cut_off_time) ==
    LET found == {id \in DOMAIN store :
                     /\ Has(store[id], "gsiK1PartitionKey")
                     /\ Has(store[id], "gsiK1SortKey")
                     /\ store[id].gsiK1PartitionKey = <<"post", date>>
                     /\ cut_off_time # NoCutOff => store[id].gsiK1SortKey < cut_off_time}
    IN  {[i \in DOMAIN s |-> store[s[i]].partitionKey] : s \in OrderedBy(store, found, "gsiK1SortKey")}

\* to_iso8601_string: '<date>T<time>Z', the date first
IsoString(t) == <<DateOf(t), TimeOfDay(t)>>
\* str(cut_off_date): '<date>'
DateString(date) == <<date>>

\* the order of strings: the first difference decides, a proper prefix is less
RECURSIVE StringLess(_, _)
StringLess(a, b) ==
    IF b = <<>> THEN FALSE
    ELSE IF a = <<>> THEN TRUE
    ELSE IF Head(a) # Head(b) THEN Head(a) < Head(b)
    ELSE StringLess(Tail(a), Tail(b))

\* mutant: the scan compares with 'lte' the date string followed by the last time of the day
generate_expired_post_pks_with_scan_through_day(store, cut_off_date) ==
    {store[id].partitionKey : id \in {i \in DOMAIN store :
        /\ store[i].partitionKey[1] = "post"
        /\ Has(store[i], "expiresAt")
        /\ ~StringLess(<<cut_off_date, DayLen>>, IsoString(store[i].expiresAt))}}

\* The scan: the keys of the items whose partitionKey begins with 'post/' and
\* whose expiresAt string is less than the date string.
generate_expired_post_pks_with_scan(store, cut_off_date) ==
    {store[id].partitionKey : id \in {i \in DOMAIN store :
        /\ store[i].partitionKey[1] = "post"
        /\ Has(store[i], "expiresAt")
        /\ StringLess(IsoString(store[i].expiresAt), DateString(cut_off_date))}}

AddStoryOf(user_id, id, expires_at) ==
    /\ Transact(<<transact_add_pending_post(user_id, id, PostType, id, expires_at, NoAlbum)>>)
    /\ UNCHANGED <<ffs, follows, ops, views>>

\* set_expires_at on the item as it is stored
SetStoredExpiresAt(id, expires_at) ==
    /\ id \in DOMAIN posts
    /\ UpdateItem(set_expires_at(posts[id], expires_at))
    /\ UNCHANGED <<ffs, follows, ops, views>>

\* Stories of two owners: one caller holds the item it read of the first post
\* while the others create stories, set their status and set and remove
\* their expiry.
CreateStory == \E user_id \in Owners, id \in TwoPosts, e \in StoryTimes \cup {NoTime} : AddStoryOf(user_id, id, e)
ReadStory == \E id \in EnginePosts : ReadPost("c1", id)
SetStoryStatus == \E status \in {COMPLETED, ARCHIVED} : SetPostStatus("c1", status, NoRank)
SetStoredStoryStatus == \E id \in TwoPosts, status \in {COMPLETED, ARCHIVED} : SetStoredPostStatus(id, status, NoRank)
DoSetStoredExpiresAt == \E id \in TwoPosts, e \in StoryTimes : SetStoredExpiresAt(id, e)
RemoveStoryExpiresAt == \E id \in TwoPosts : RemoveExpiresAt(id)
NextStories ==
    \/ CreateStory \/ ReadStory \/ SetStoryStatus \/ SetStoredStoryStatus
    \/ DoSetStoredExpiresAt \/ RemoveStoryExpiresAt
SpecStories == InitEngine /\ [][NextStories]_vars

\* the posts that expire on the date, before the cut-off when there is one
ExpiringOn(store, date, cut_off_time) ==
    {id \in DOMAIN store :
        /\ Has(store[id], "expiresAt")
        /\ DateOf(store[id].expiresAt) = date
        /\ cut_off_time # NoCutOff => TimeOfDay(store[id].expiresAt) < cut_off_time}

\* C22: generate_expired_post_pks_by_day(D, T) returns, each once and in
\* ascending order of expiresAt, the keys of exactly the posts whose
\* expiresAt is on day D at a time of day strictly before T, and of every
\* post expiring on day D when there is no cut-off; a post without expiresAt
\* is never returned.
C22_ExpiredByDay ==
    \A date \in Days, cut_off_time \in TimesOfDay \cup {NoCutOff} :
        \A pks \in generate_expired_post_pks_by_day(posts, date, cut_off_time) :
            /\ {pks[i] : i \in DOMAIN pks} = {<<"post", id>> : id \in ExpiringOn(posts, date, cut_off_time)}
            /\ \A i, j \in DOMAIN pks :
                  i < j => pks[i] # pks[j] /\ posts[pks[i][2]].expiresAt <= posts[pks[j][2]].expiresAt

\* two posts expire on one day, post 2 before post 1: the cut-off at the
\* expiry of post 1 returns post 2 alone, no cut-off returns post 2 then post 1
C22_Witness ==
    /\ DOMAIN posts = TwoPosts
    /\ Has(posts[1], "expiresAt") /\ Has(posts[2], "expiresAt")
    /\ DateOf(posts[1].expiresAt) = DateOf(posts[2].expiresAt)
    /\ posts[2].expiresAt < posts[1].expiresAt
    /\ generate_expired_post_pks_by_day(posts, DateOf(posts[1].expiresAt), TimeOfDay(posts[1].expiresAt))
          = {<< <<"post", 2>> >>}
    /\ generate_expired_post_pks_by_day(posts, DateOf(posts[1].expiresAt), NoCutOff)
          = {<< <<"post", 2>>, <<"post", 1>> >>}

\* the owner's COMPLETED posts with an expiry, but the excluded one
CompletedStories(store, user_id, exclude_post_id) ==
    {id \in DOMAIN store :
        /\ Has(store[id], "expiresAt")
        /\ store[id].postStatus = COMPLETED
        /\ store[id].postedByUserId = user_id
        /\ id # exclude_post_id}

\* C23: get_next_completed_post_to_expire(owner, exclude) returns a COMPLETED
\* post of the owner, other than the excluded one, that has an expiresAt no
\* later than that of any other such post, and returns nothing when the owner
\* has no such post.
C23_NextCompletedToExpire ==
    \A user_id \in Owners, exclude_post_id \in TwoPosts \cup {NoPostId} :
        LET stories == CompletedStories(posts, user_id, exclude_post_id)
            next == get_next_completed_post_to_expire(posts, user_id, exclude_post_id)
        IN  IF stories = {}
            THEN IsNone(next)
            ELSE /\ ~IsNone(next)
                 /\ next.postId \in stories
                 /\ \A other \in stories : posts[next.postId].expiresAt <= posts[other].expiresAt

\* C25: generate_expired_post_pks_with_scan(cut_off_date) returns the keys of
\* exactly the posts that have an expiresAt on a date strictly before
\* cut_off_date.
C25_ExpiredByScan ==
    \A cut_off_date \in Days \cup {DateOf(MaxRacingTime) + 1} :
        generate_expired_post_pks_with_scan(posts, cut_off_date)
            = {<<"post", id>> : id \in {i \in DOMAIN posts :
                  Has(posts[i], "expiresAt") /\ DateOf(posts[i].expiresAt) < cut_off_date}}

\* one post expires the day before the other, not at its first instant: the
\* scan cut off at the later day returns the earlier post alone
C25_Witness ==
    /\ DOMAIN posts = TwoPosts
    /\ Has(posts[1], "expiresAt") /\ Has(posts[2], "expiresAt")
    /\ DateOf(posts[1].expiresAt) < DateOf(posts[2].expiresAt)
    /\ TimeOfDay(posts[1].expiresAt) > 0
    /\ generate_expired_post_pks_with_scan(posts, DateOf(posts[2].expiresAt)) = {<<"post", 1>>}

\* the record of a post of the owner as transact_add_pending_post creates it
PendingStory(user_id, id, expires_at) ==
    transact_add_pending_post(user_id, id, PostType, id, expires_at, NoAlbum).item

\* C24: set_expires_at(e) on a post as it was created without an expiry
\* leaves the record that creating the post with expires_at = e gives, and
\* remove_expires_at on a post as it was created with an expiry leaves the
\* record that creating it without one gives.
C24_ExpiryRoundTrip ==
    [][\A id \in TwoPosts, user_id \in Owners, e \in StoryTimes :
          (id \in DOMAIN posts /\ id \in DOMAIN posts') =>
             /\ (/\ posts[id] = PendingStory(user_id, id, NoTime)
                 /\ Has(posts'[id], "expiresAt")
                 /\ posts'[id].expiresAt = e)
                => posts'[id] = PendingStory(user_id, id, e)
             /\ (/\ posts[id] = PendingStory(user_id, id, e)
                 /\ ~Has(posts'[id], "expiresAt"))
                => posts'[id] = PendingStory(user_id, id, NoTime)
      ]_vars

\* the caller read the first post as it was created without an expiry, an
\* expiry was set since, and the stored record is that of a post created with it
C24_Witness ==
    /\ "c1" \in DOMAIN views
    /\ views["c1"] = PendingStory(FollowedUser, 1, NoTime)
    /\ \E e \in StoryTimes : posts[1] = PendingStory(FollowedUser, 1, e)

----------------------------------------------------------------------------
(* PostDynamo.set: the edit of the text and of the four flags *)

\* text=None and text_tags=None, kept apart from every value: '' is a text
\* and [] a list of tags
NoText == "(None)"
NoTags == "(None)"
Texts == {"", "lore", "ipsum"}
\* text_tags: [] and a list with one tag
TagLists == {"[]", "[tag]"}
\* an optional flag: None, True or False
NoFlag == "None"
Flags == {"True", "False"}
FlagAttrs == {"commentsDisabled", "likesDisabled", "sharingDisabled", "verificationHidden"}
\* the arguments of a call of set after post_id; the last two flags are only
\* ever switched on
EditArgs ==
    [text : Texts \cup {NoText}, text_tags : TagLists \cup {NoTags},
     commentsDisabled : Flags \cup {NoFlag}, likesDisabled : Flags \cup {NoFlag},
     sharingDisabled : {"True", NoFlag}, verificationHidden : {"True", NoFlag}]

\* transact_add_pending_post with a text and tags: 'if text:' and
\* 'if text_tags is not None:'
transact_add_pending_post_with_text(posted_by_user_id, post_id, post_type, posted_at, text, text_tags) ==
    LET w == transact_add_pending_post(posted_by_user_id, post_id, post_type, posted_at, NoTime, NoAlbum)
        with_text == IF text \notin {NoText, ""} THEN [text |-> text] ELSE None
        with_tags == IF text_tags # NoTags THEN [textTags |-> text_tags] ELSE None
    IN  [w EXCEPT !.item = with_tags @@ with_text @@ @]

\* mutant: every call is accepted
SetAccepts_unchecked(a) == TRUE

\* the assertion that opens set: text_tags is not among the values it looks at
SetAccepts(a) ==
    \/ a.text # NoText
    \/ \E f \in FlagAttrs : a[f] # NoFlag

\* mutant: the tags are set whenever they are given, also with the text removed
set_tags_always(post_id, a) ==
    LET text == IF a.text \notin {NoText, ""} THEN [text |-> a.text] ELSE None
        tags == IF a.text # NoText /\ a.text_tags # NoTags THEN [textTags |-> a.text_tags] ELSE None
        supplied == {f \in FlagAttrs : a[f] # NoFlag}
        flags == [f \in supplied |-> a[f]]
    IN  Update(post_id, flags @@ tags @@ text,
               IF a.text = "" THEN {"text"} \cup ({"textTags"} \ DOMAIN tags) ELSE {},
               Unconditional)

\* mutant: the tags are set when they are given without a text
set_tags_without_text(post_id, a) ==
    LET text == IF a.text \notin {NoText, ""} THEN [text |-> a.text] ELSE None
        tags == IF a.text # "" /\ a.text_tags # NoTags THEN [textTags |-> a.text_tags] ELSE None
        supplied == {f \in FlagAttrs : a[f] # NoFlag}
        flags == [f \in supplied |-> a[f]]
    IN  Update(post_id, flags @@ tags @@ text,
               IF a.text = "" THEN {"text", "textTags"} ELSE {},
               Unconditional)

\* the update set builds: REMOVE #text, textTags for the text ''; SET #text
\* and, when tags are given, textTags for another text; SET of each flag given
set(post_id, a) ==
    LET text == IF a.text \notin {NoText, ""} THEN [text |-> a.text] ELSE None
        tags == IF a.text \notin {NoText, ""} /\ a.text_tags # NoTags
                THEN [textTags |-> a.text_tags] ELSE None
        supplied == {f \in FlagAttrs : a[f] # NoFlag}
        flags == [f \in supplied |-> a[f]]
    IN  Update(post_id, flags @@ tags @@ text,
               IF a.text = "" THEN {"text", "textTags"} ELSE {},
               Unconditional)

CreateWithText(id, text, text_tags) ==
    /\ Transact(<<transact_add_pending_post_with_text(FollowedUser, id, PostType, id, text, text_tags)>>)
    /\ UNCHANGED <<ffs, follows, ops, views>>

\* The outcome of a call of set on a store: the assertion, then
\* client.update_item.
AfterSet(store, id, a) ==
    IF ~SetAccepts(a) THEN [posts |-> store, last |-> "AssertionError"]
    ELSE IF UpdateItemOk(store, set(id, a))
         THEN [posts |-> ApplyWrite(store, set(id, a)), last |-> "ok"]
         ELSE [posts |-> store, last |-> "ConditionalCheckFailed"]

Set(id, a) ==
    LET after == AfterSet(posts, id, a) IN
    /\ posts' = after.posts
    /\ last' = after.last
    /\ UNCHANGED <<ffs, follows, ops, views>>

DoCreateWithText ==
    \E id \in EnginePosts, text \in Texts \cup {NoText}, text_tags \in TagLists \cup {NoTags} :
        CreateWithText(id, text, text_tags)
DoSet == \E id \in EnginePosts, a \in EditArgs : Set(id, a)
NextEdit == DoCreateWithText \/ DoSet
SpecEdit == InitEngine /\ [][NextEdit]_vars

\* the attribute is absent from both items or has the same value in both
SameAttr(item, other, name) ==
    /\ Has(item, name) <=> Has(other, name)
    /\ Has(item, name) => item[name] = other[name]

WritesTags(item, after) ==
    Has(after, "textTags") /\ ~SameAttr(item, after, "textTags")

\* C27 as stated: a call of set on a stored post that passes text_tags and
\* no text completes without error, whatever the flags it passes, and leaves
\* the stored text and textTags as they were; tags are written only by a
\* call with a non-empty text.
C27_TagsWithoutText ==
    \A id \in EnginePosts \cap DOMAIN posts, a \in EditArgs :
        LET after == AfterSet(posts, id, a) IN
        /\ (a.text = NoText /\ a.text_tags # NoTags) =>
              /\ after.last = "ok"
              /\ SameAttr(posts[id], after.posts[id], "text")
              /\ SameAttr(posts[id], after.posts[id], "textTags")
        /\ WritesTags(posts[id], after.posts[id]) => a.text \notin {NoText, ""}

\* C27 amended: a call of set on a stored post that passes text_tags and no
\* text leaves the stored text and textTags as they were; it completes
\* without error when it passes a flag, and raises the assertion error and
\* writes nothing when it passes none.  Tags are written only by a call with
\* a non-empty text.
C27_TagsWithoutTextNeedAFlag ==
    \A id \in EnginePosts \cap DOMAIN posts, a \in EditArgs :
        LET after == AfterSet(posts, id, a) IN
        /\ (a.text = NoText /\ a.text_tags # NoTags) =>
              /\ SameAttr(posts[id], after.posts[id], "text")
              /\ SameAttr(posts[id], after.posts[id], "textTags")
              /\ IF \E f \in FlagAttrs : a[f] # NoFlag
                 THEN after.last = "ok"
                 ELSE after.last = "AssertionError" /\ after.posts = posts
        /\ WritesTags(posts[id], after.posts[id]) => a.text \notin {NoText, ""}

\* an edit has succeeded on a post that has a text and the empty list of
\* tags; passing it a tag and a flag and no text succeeds and leaves the list
\* empty, passing it the tag alone is rejected
C27_Witness ==
    /\ last = "ok"
    /\ 1 \in DOMAIN posts
    /\ \E f \in FlagAttrs : Has(posts[1], f)
    /\ Has(posts[1], "text")
    /\ Has(posts[1], "textTags") /\ posts[1].textTags = "[]"
    /\ \E a \in EditArgs :
          /\ a.text = NoText /\ a.text_tags = "[tag]" /\ a.likesDisabled = "True"
          /\ AfterSet(posts, 1, a).last = "ok"
          /\ AfterSet(posts, 1, a).posts[1].textTags = "[]"
    /\ \E a \in EditArgs :
          /\ a.text = NoText /\ a.text_tags = "[tag]"
          /\ AfterSet(posts, 1, a).last = "AssertionError"

\* C28: a call of set that succeeds with the text '' leaves the post without
\* text and without textTags, whether or not tags are passed; with another
\* text it leaves that text and, when tags are passed, those tags, and
\* otherwise the tags as they were; an edit that leaves the post without text
\* never leaves it with other tags than it had.
C28_TextAndTags ==
    \A id \in EnginePosts, a \in EditArgs :
        LET after == AfterSet(posts, id, a) IN
        after.last = "ok" =>
           /\ a.text = "" => ~Has(after.posts[id], "text") /\ ~Has(after.posts[id], "textTags")
           /\ a.text \notin {NoText, ""} =>
                 /\ Has(after.posts[id], "text") /\ after.posts[id].text = a.text
                 /\ IF a.text_tags # NoTags
                    THEN Has(after.posts[id], "textTags") /\ after.posts[id].textTags = a.text_tags
                    ELSE SameAttr(posts[id], after.posts[id], "textTags")
           /\ ~Has(after.posts[id], "text") =>
                 \/ ~Has(after.posts[id], "textTags")
                 \/ SameAttr(posts[id], after.posts[id], "textTags")

\* an edit has succeeded on a post that has a text and a tag; the edit with
\* the text '' and a list of tags leaves it without text and without tags
C28_Witness ==
    /\ last = "ok"
    /\ 1 \in DOMAIN posts
    /\ \E f \in FlagAttrs : Has(posts[1], f)
    /\ Has(posts[1], "text") /\ posts[1].text = "ipsum"
    /\ Has(posts[1], "textTags") /\ posts[1].textTags = "[tag]"
    /\ \E a \in EditArgs :
          /\ a.text = "" /\ a.text_tags = "[]"
          /\ AfterSet(posts, 1, a).last = "ok"
          /\ ~Has(AfterSet(posts, 1, a).posts[1], "text")
          /\ ~Has(AfterSet(posts, 1, a).posts[1], "textTags")

----------------------------------------------------------------------------
(* Mutations of a post that has no record *)

delete_post(post_id) == [kind |-> "Delete", id |-> post_id, cond |-> Unconditional]

increment_viewed_by_count(post_id) == Add(post_id, [viewedByCount |-> 1], Unconditional)

\* client.delete_item
DeletePost(id) ==
    /\ posts' = ApplyWrite(posts, delete_post(id))
    /\ last' = "deleted"
    /\ UNCHANGED <<ffs, follows, ops, views>>

\* the failed condition of the update is raised as PostDoesNotExist
IncrementViewedByCount(id) ==
    /\ IF UpdateItemOk(posts, increment_viewed_by_count(id))
       THEN posts' = ApplyWrite(posts, increment_viewed_by_count(id)) /\ last' = "ok"
       ELSE posts' = posts /\ last' = "PostDoesNotExist"
    /\ UNCHANGED <<ffs, follows, ops, views>>

\* the caller's item is of a post that has no record any more
HoldsMissing(c) == c \in DOMAIN views /\ views[c].postId \notin DOMAIN posts
MissingPosts == EnginePosts \ DOMAIN posts

\* A post is created, read and deleted; every mutation is tried on the key
\* while it has no record.
CreateToDelete ==
    \E id \in EnginePosts, e \in Expiries \cup {NoTime}, album_id \in AlbumIds \cup {NoAlbum} :
        AddPost(id, e, album_id)
DoDeletePost == \E id \in EnginePosts : DeletePost(id)
IncrementMissing ==
    \E id \in MissingPosts :
        \/ Increment(transact_increment_flag_count(id))
        \/ \E like_status \in LikeStatuses : IncrementLikeCount(id, like_status)
        \/ Increment(transact_increment_comment_count(id))
        \/ Increment(increment_comment_count_unviewed(id))
DecrementMissing ==
    \E id \in MissingPosts, fail_soft \in BOOLEAN :
        \/ \E name \in Counters : DecrementCount(name, id, fail_soft)
        \/ \E like_status \in LikeStatuses : DecrementLikeCount(id, like_status, fail_soft)
SetStatusMissing ==
    \E c \in Callers, status \in Statuses, r \in OptionalRanks : HoldsMissing(c) /\ SetPostStatus(c, status, r)
SetAlbumMissing ==
    \E c \in Callers, album_id \in AlbumIds \cup {NoAlbum}, r \in OptionalRanks :
        HoldsMissing(c) /\ SetAlbumId(c, album_id, r)
SetAlbumRankMissing == \E id \in MissingPosts, r \in Ranks : SetAlbumRank(id, r)
SetChecksumMissing ==
    \E id \in MissingPosts, posted_at_str \in PostedTimes, checksum \in Checksums \cup {NoChecksum} :
        SetChecksum(id, posted_at_str, checksum)
ViewMissing == \E id \in MissingPosts : IncrementViewedByCount(id)
MutateMissing ==
    \/ IncrementMissing \/ DecrementMissing \/ SetStatusMissing \/ SetAlbumMissing
    \/ SetAlbumRankMissing \/ SetChecksumMissing \/ ViewMissing
NextMissing == CreateToDelete \/ DoReadPost \/ DoDeletePost \/ MutateMissing
SpecMissing == InitEngine /\ [][NextMissing]_vars

\* the ways a mutation fails
Failures ==
    {"ConditionalCheckFailed", "TransactionCanceled", "PostDoesNotExist", "None",
     "AssertionError", "PostException"}

\* C29: a counter increment or decrement, a status-set, an album-set, a
\* rank-set, a checksum-set or a view-count increment applied to a postId
\* that has no record fails, and the store has no record for that postId
\* afterwards.
C29_MutationsNeverCreate ==
    [][MutateMissing => (last' \in Failures /\ posts' = posts)]_vars

\* the post was created, read and deleted: a transaction on its key has been
\* cancelled, the table is empty and a caller still holds the item
C29_Witness ==
    /\ last = "TransactionCanceled"
    /\ posts = None
    /\ views # None

----------------------------------------------------------------------------
(* The comment counters *)

\* what a step adds to a counter of the post, an absent counter being zero
Delta(id, name) == CountOf(posts', id, name) - CountOf(posts, id, name)

\* the step leaves every attribute of the post but those named as it was
OthersKept(id, names) ==
    \A name \in (DOMAIN posts[id] \cup DOMAIN posts'[id]) \ names :
        SameAttr(posts[id], posts'[id], name)

----------------------------------------------------------------------------
(* The pages of followers of a refresh *)

MaxFollowers == 51
MaxRequested == 1
\* the most ids a page holds
PageSize == 25
FOLLOWING == "FOLLOWING"
REQUESTED == "REQUESTED"
FollowStatuses == {FOLLOWING, REQUESTED}

\* the followers with the status, in the order of the query (that of their ids)
RECURSIVE InOrder(_)
InOrder(ids) ==
    IF ids = {} THEN <<>>
    ELSE LET first == CHOOSE f \in ids : \A g \in ids : f <= g
         IN  <<first>> \o InOrder(ids \ {first})

FollowersWith(table, status) == InOrder({f \in DOMAIN table : table[f] = status})

\* mutant: the batch in hand is yielded at the end also when it is empty
RECURSIVE Batched_with_empty_tail(_)
Batched_with_empty_tail(ids) ==
    IF Len(ids) < PageSize THEN <<ids>>
    ELSE <<SubSeq(ids, 1, PageSize)>> \o Batched_with_empty_tail(SubSeq(ids, PageSize + 1, Len(ids)))

\* the ids in batches: a batch is yielded when it holds PageSize ids, and the
\* batch in hand at the end when it holds any
RECURSIVE Batched(_)
Batched(ids) ==
    IF ids = <<>> THEN <<>>
    ELSE IF Len(ids) <= PageSize THEN <<ids>>
    ELSE <<SubSeq(ids, 1, PageSize)>> \o Batched(SubSeq(ids, PageSize + 1, Len(ids)))

\* the pages of the ids of the users who follow with status FOLLOWING
generate_batched_follower_user_ids(table) == Batched(FollowersWith(table, FOLLOWING))

\* transact_add_following: the next user follows, or requests to
AddFollowing(follow_status) ==
    /\ Cardinality(DOMAIN follows) < MaxFollowers + MaxRequested
    /\ follow_status = FOLLOWING
          => Cardinality({f \in DOMAIN follows : follows[f] = FOLLOWING}) < MaxFollowers
    /\ follow_status = REQUESTED
          => Cardinality({f \in DOMAIN follows : follows[f] = REQUESTED}) < MaxRequested
    /\ follows' = (Cardinality(DOMAIN follows) + 1 :> follow_status) @@ follows
    /\ last' = "ok"
    /\ UNCHANGED <<posts, ffs, ops, views>>

Follow == AddFollowing(FOLLOWING)
RequestToFollow == AddFollowing(REQUESTED)
NextPaging == Follow \/ RequestToFollow
SpecPaging == InitEngine /\ [][NextPaging]_vars

\* the ids of all the pages
RECURSIVE Concatenated(_)
Concatenated(pages) == IF pages = <<>> THEN <<>> ELSE Head(pages) \o Concatenated(Tail(pages))

\* C31: every page of generate_batched_follower_user_ids has between 1 and
\* 25 ids and every page but the last exactly 25; the pages together hold
\* each user who follows with status FOLLOWING exactly once and no other
\* user; without such a user there is no page.
C31_FollowerPages ==
    LET pages == generate_batched_follower_user_ids(follows)
        all == Concatenated(pages)
    IN  /\ \A i \in DOMAIN pages :
              /\ Len(pages[i]) >= 1 /\ Len(pages[i]) <= 25
              /\ i < Len(pages) => Len(pages[i]) = 25
        /\ {all[i] : i \in DOMAIN all} = {f \in DOMAIN follows : follows[f] = FOLLOWING}
        /\ \A i, j \in DOMAIN all : i # j => all[i] # all[j]
        /\ (\A f \in DOMAIN follows : follows[f] # FOLLOWING) => pages = <<>>

\* 51 users follow and one has requested to: three pages, of 25, 25 and 1
C31_Witness ==
    /\ Cardinality({f \in DOMAIN follows : follows[f] = FOLLOWING}) = 51
    /\ \E f \in DOMAIN follows : follows[f] = REQUESTED
    /\ Len(generate_batched_follower_user_ids(follows)) = 3
    /\ Len(generate_batched_follower_user_ids(follows)[3]) = 1

----------------------------------------------------------------------------
(* The end of a post *)

\* C32: a step removes the record of a post only when its stored postStatus
\* is DELETING.
C32_DeletedOnlyWhenDeleting ==
    [][\A id \in DOMAIN posts :
          id \notin DOMAIN posts' => posts[id].postStatus = DELETING
      ]_vars

----------------------------------------------------------------------------
(* Transactions of several items *)

\* The key of the originalMetadata item of a post, (post/<post_id>,
\* originalMetadata): in the store of the model the negative of the postId.
OriginalMetadataKey(post_id) == 0 - post_id
Metadatas == {"exif", "none"}

transact_add_original_metadata(post_id, original_metadata) ==
    [kind |-> "Put", id |-> OriginalMetadataKey(post_id),
     item |-> [schemaVersion |-> 0,
               partitionKey |-> <<"post", post_id>>,
               sortKey |-> "originalMetadata",
               originalMetadata |-> original_metadata],
     cond |-> NotExists]

\* the metadata of a post are written alone, where there are none
AddOriginalMetadata(id, original_metadata) ==
    /\ OriginalMetadataKey(id) \notin DOMAIN posts
    /\ Transact(<<transact_add_original_metadata(id, original_metadata)>>)
    /\ UNCHANGED <<ffs, follows, ops, views>>

\* a post and its metadata are written in one transaction
AddPostWithMetadata(id, original_metadata) ==
    /\ Transact(<<transact_add_pending_post(FollowedUser, id, PostType, id, NoTime, NoAlbum),
                  transact_add_original_metadata(id, original_metadata)>>)
    /\ UNCHANGED <<ffs, follows, ops, views>>

MetadataAlone == \E id \in TwoPosts, md \in Metadatas : AddOriginalMetadata(id, md)
CreateWithMetadata == \E id \in TwoPosts, md \in Metadatas : AddPostWithMetadata(id, md)
NextTransact == MetadataAlone \/ CreateWithMetadata \/ CreateAndFlag
SpecTransact == InitEngine /\ [][NextTransact]_vars

\* C33: a transaction of a create and the metadata of the post, or of a
\* create and the flagging of another post, writes both items when the
\* precondition of each holds, and is cancelled and changes nothing when one
\* of them fails.
C33_AllOrNothing ==
    [][\A id \in TwoPosts :
          /\ \A md \in Metadatas :
                AddPostWithMetadata(id, md) =>
                   IF id \in DOMAIN posts \/ OriginalMetadataKey(id) \in DOMAIN posts
                   THEN last' = "TransactionCanceled" /\ posts' = posts
                   ELSE /\ last' = "ok"
                        /\ DOMAIN posts' = DOMAIN posts \cup {id, OriginalMetadataKey(id)}
                        /\ posts'[id] = Created(id, NoTime, NoAlbum)
                        /\ posts'[OriginalMetadataKey(id)].originalMetadata = md
                        /\ \A k \in DOMAIN posts : posts'[k] = posts[k]
          /\ \A e \in Expiries \cup {NoTime}, album_id \in AlbumIds \cup {NoAlbum}, other \in TwoPosts :
                AddPostAndFlag(id, e, album_id, other) =>
                   IF id \in DOMAIN posts \/ other \notin DOMAIN posts
                   THEN last' = "TransactionCanceled" /\ posts' = posts
                   ELSE /\ last' = "ok"
                        /\ DOMAIN posts' = DOMAIN posts \cup {id}
                        /\ posts'[id] = Created(id, e, album_id)
                        /\ CountOf(posts', other, "flagCount") = CountOf(posts, other, "flagCount") + 1
      ]_vars

\* a transaction has been cancelled where the metadata of the first post are
\* stored and the post is not: its record was not written
C33_Witness ==
    /\ last = "TransactionCanceled"
    /\ OriginalMetadataKey(1) \in DOMAIN posts
    /\ 1 \notin DOMAIN posts
    /\ 2 \in DOMAIN posts

----------------------------------------------------------------------------
(* Posts of a user *)

\* mutant: the filter is applied to the whole table
generate_posts_by_user_of_all(store, user_id, completed) ==
    {store[id] : id \in
        {i \in DOMAIN store :
            /\ Has(store[i], "gsiA2PartitionKey")
            /\ \/ completed = NoFlag
               \/ completed = "True" /\ store[i].postStatus = COMPLETED
               \/ completed = "False" /\ store[i].postStatus # COMPLETED}}

\* The items of GSI-A2 under the key of the user, filtered on the stored
\* postStatus when completed is given.
generate_posts_by_user(store, user_id, completed) ==
    {store[id] : id \in
        {i \in DOMAIN store :
            /\ Has(store[i], "gsiA2PartitionKey")
            /\ store[i].gsiA2PartitionKey = <<"post", user_id>>
            /\ \/ completed = NoFlag
               \/ completed = "True" /\ store[i].postStatus = COMPLETED
               \/ completed = "False" /\ store[i].postStatus # COMPLETED}}

PostsOf(user_id) == {posts[id] : id \in {i \in DOMAIN posts : posts[i].postedByUserId = user_id}}

\* C34: the posts by a user are all the posts of that owner; with
\* completed=True those of them stored as COMPLETED, with completed=False
\* those stored with another status; the two filtered results are disjoint
\* and together make the unfiltered one.
C34_PostsByUser ==
    \A user_id \in Owners :
        LET all == generate_posts_by_user(posts, user_id, NoFlag)
            done == generate_posts_by_user(posts, user_id, "True")
            rest == generate_posts_by_user(posts, user_id, "False")
        IN  /\ all = PostsOf(user_id)
            /\ done = {item \in PostsOf(user_id) : item.postStatus = COMPLETED}
            /\ rest = {item \in PostsOf(user_id) : item.postStatus # COMPLETED}
            /\ done \cap rest = {}
            /\ done \cup rest = all

\* a user has a completed post and an archived one
C34_Witness ==
    /\ DOMAIN posts = {1, 2}
    /\ posts[2].postStatus = ARCHIVED
    /\ generate_posts_by_user(posts, FollowedUser, "True") = {posts[1]}
    /\ generate_posts_by_user(posts, FollowedUser, "False") = {posts[2]}

----------------------------------------------------------------------------
(* Rank overwrite and the cursor of the album query *)

\* C35: setting the album rank of a stored post succeeds whatever its
\* postStatus and whether or not it is in an album, and changes the
\* album-rank key gsiK3SortKey to the supplied rank and nothing else; on a
\* missing post it is cancelled.
C35_RankOverwrite ==
    [][\A id \in TwoPosts, r \in Ranks :
          SetAlbumRank(id, r) =>
             IF id \in DOMAIN posts
             THEN /\ last' = "ok"
                  /\ DOMAIN posts' = DOMAIN posts
                  /\ posts'[id].gsiK3SortKey = r
                  /\ OthersKept(id, {"gsiK3SortKey"})
                  /\ \A other \in DOMAIN posts \ {id} : posts'[other] = posts[other]
             ELSE last' = "TransactionCanceled" /\ posts' = posts
      ]_vars

\* a pending post in an album carries a rank, and a post that is in no album
\* carries one too
C35_Witness ==
    /\ last = "ok"
    /\ \E id \in DOMAIN posts :
          /\ posts[id].postStatus = PENDING
          /\ AlbumOf(posts[id]) = AlbumId
          /\ posts[id].gsiK3SortKey = MaxRank
    /\ \E id \in DOMAIN posts :
          /\ AlbumOf(posts[id]) = NoAlbum
          /\ Has(posts[id], "gsiK3SortKey")

----------------------------------------------------------------------------
(* What a status-set changes *)

StatusKeys ==
    {"postStatus", "gsiA2SortKey", "gsiA3SortKey", "gsiA1SortKey", "gsiK3SortKey", "originalPostId"}

\* C36: a successful status-set stores the status and changes no attribute
\* but postStatus, the status-qualified sort keys and originalPostId; the
\* expiry sort key is touched only when the post has an expiresAt and the
\* album rank only when it has an albumId, so that neither key is created
\* for a post without expiry or album.
C36_StatusSetChanges ==
    [][\A c \in Callers, status \in Statuses :
          (SetPostStatus(c, status, NoRank) /\ last' = "ok") =>
             LET id == views[c].postId
             IN  /\ posts'[id].postStatus = status
                 /\ OthersKept(id, StatusKeys)
                 /\ ~Has(posts[id], "expiresAt") => SameAttr(posts[id], posts'[id], "gsiA1SortKey")
                 /\ ~Has(posts[id], "albumId") => SameAttr(posts[id], posts'[id], "gsiK3SortKey")
      ]_vars

----------------------------------------------------------------------------
(* The flag hasNewCommentActivity *)

\* mutant: setting False is accepted on a post without the attribute too
transact_set_has_new_comment_activity_from_absent(post_id, new_value) ==
    Update(post_id, [hasNewCommentActivity |-> new_value], {},
           [exists |-> TRUE, absent |-> FALSE, eq |-> None,
            absentOrEq |-> [hasNewCommentActivity |-> ~new_value]])

transact_set_has_new_comment_activity(post_id, new_value) ==
    Update(post_id, [hasNewCommentActivity |-> new_value], {},
           IF new_value
           THEN [exists |-> TRUE, absent |-> FALSE, eq |-> None,
                 absentOrEq |-> [hasNewCommentActivity |-> ~new_value]]
           ELSE [exists |-> TRUE, absent |-> FALSE,
                 eq |-> [hasNewCommentActivity |-> ~new_value]])

SetHasNewCommentActivity(id, new_value) ==
    /\ Transact(<<transact_set_has_new_comment_activity(id, new_value)>>)
    /\ UNCHANGED <<ffs, follows, ops, views>>

DoSetHasNewCommentActivity ==
    \E id \in TwoPosts, new_value \in BOOLEAN : SetHasNewCommentActivity(id, new_value)
NextActivity == Create \/ DoSetHasNewCommentActivity
SpecActivity == InitEngine /\ [][NextActivity]_vars

\* the value of the flag as a reader sees it: a post without the attribute
\* has no new comment activity
HasNewCommentActivity(item) ==
    IF Has(item, "hasNewCommentActivity") THEN item.hasNewCommentActivity ELSE FALSE

\* C37: setting hasNewCommentActivity to v succeeds exactly on a stored post
\* whose flag is not v (an absent attribute counts as False), then stores v
\* and changes nothing else; otherwise the call is cancelled and the record
\* is unchanged. So the first successful call on a post sets True and the
\* successful calls alternate.
C37_FlagAlternates ==
    [][\A id \in TwoPosts, v \in BOOLEAN :
          SetHasNewCommentActivity(id, v) =>
             IF id \in DOMAIN posts /\ HasNewCommentActivity(posts[id]) # v
             THEN /\ last' = "ok"
                  /\ DOMAIN posts' = DOMAIN posts
                  /\ posts'[id].hasNewCommentActivity = v
                  /\ OthersKept(id, {"hasNewCommentActivity"})
                  /\ \A other \in DOMAIN posts \ {id} : posts'[other] = posts[other]
             ELSE last' = "TransactionCanceled" /\ posts' = posts
      ]_vars

\* the flag of the first post has been set and cleared, and a call has been
\* cancelled where the second post is fresh
C37_Witness ==
    /\ last = "TransactionCanceled"
    /\ DOMAIN posts = {1, 2}
    /\ Has(posts[1], "hasNewCommentActivity") /\ ~posts[1].hasNewCommentActivity
    /\ ~Has(posts[2], "hasNewCommentActivity")

----------------------------------------------------------------------------
(* Like counters *)

\* C38: an onymous like moves onymousLikeCount only and an anonymous like
\* anonymousLikeCount only: the increment adds one on a stored post, the
\* decrement takes one when that counter is at least one, whatever the other
\* counter holds, and fails without a change otherwise; any other like
\* status raises PostException and nothing is written.
C38_LikeCounters ==
    [][\A id \in EnginePosts, like_status \in LikeStatuses :
          LET name == IF like_status = ONYMOUSLY_LIKED THEN "onymousLikeCount"
                      ELSE "anonymousLikeCount"
              known == like_status \in {ONYMOUSLY_LIKED, ANONYMOUSLY_LIKED}
          IN  /\ IncrementLikeCount(id, like_status) =>
                    IF ~known THEN last' = "PostException" /\ posts' = posts
                    ELSE IF id \in DOMAIN posts
                    THEN last' = "ok" /\ Delta(id, name) = 1 /\ OthersKept(id, {name})
                    ELSE posts' = posts
              /\ \A fail_soft \in BOOLEAN :
                    DecrementLikeCount(id, like_status, fail_soft) =>
                       IF ~known THEN last' = "PostException" /\ posts' = posts
                       ELSE IF CountOf(posts, id, name) >= 1
                       THEN last' = "ok" /\ Delta(id, name) = -1 /\ OthersKept(id, {name})
                       ELSE last' = Failed(fail_soft) /\ posts' = posts
      ]_vars

\* a like status that selects no counter has been refused where the onymous
\* counter is back at zero and the anonymous one is not
C38_Witness ==
    /\ last = "PostException"
    /\ \E id \in DOMAIN posts :
          /\ Has(posts[id], "onymousLikeCount") /\ posts[id].onymousLikeCount = 0
          /\ CountOf(posts, id, "anonymousLikeCount") = MaxCount

----------------------------------------------------------------------------
(* Concurrent counter updates *)

MaxCalls == 2
CountedPost == CHOOSE id \in EnginePosts : TRUE
CalledCounters == {"flagCount", "commentCount"}
NoCall == <<>>

\* the increment of the counter called name
IncrementOf(name, post_id) ==
    CASE name = "flagCount" -> transact_increment_flag_count(post_id)
      [] name = "commentCount" -> transact_increment_comment_count(post_id)

\* what caller c has done so far: the call it has in flight, the calls it has
\* made and, for each counter, its increments and decrements that succeeded
CallsOf(c) ==
    IF c \in DOMAIN ops THEN ops[c]
    ELSE [call |-> NoCall, made |-> 0,
          incs |-> [name \in CalledCounters |-> 0],
          decs |-> [name \in CalledCounters |-> 0]]

\* caller c starts a call on a counter of the post while calls of the other
\* callers may be in flight
StartCall(c, kind, name) ==
    /\ CallsOf(c).call = NoCall
    /\ CallsOf(c).made < MaxCalls
    /\ ops' = (c :> [CallsOf(c) EXCEPT !.call = <<kind, name>>, !.made = @ + 1]) @@ ops
    /\ UNCHANGED <<posts, ffs, follows, views, last>>

\* the write of the call of caller c reaches the store
CommitCall(c) ==
    /\ CallsOf(c).call # NoCall
    /\ LET kind == CallsOf(c).call[1]
           name == CallsOf(c).call[2]
           w == IF kind = "inc" THEN IncrementOf(name, CountedPost)
                ELSE DecrementOf(name, CountedPost)
       IN  /\ Transact(<<w>>)
           /\ ops' = [ops EXCEPT
                        ![c] = [@ EXCEPT
                                  !.call = NoCall,
                                  !.incs[name] = @ + (IF kind = "inc" /\ last' = "ok" THEN 1 ELSE 0),
                                  !.decs[name] = @ + (IF kind = "dec" /\ last' = "ok" THEN 1 ELSE 0)]]
    /\ UNCHANGED <<ffs, follows, views>>

DoStartCall == \E c \in Callers, kind \in {"inc", "dec"}, name \in CalledCounters : StartCall(c, kind, name)
DoCommitCall == \E c \in Callers : CommitCall(c)
NextCalls == AddCounted \/ DoStartCall \/ DoCommitCall
SpecCalls == InitEngine /\ [][NextCalls]_vars

\* the calls of the kind on the counter that have succeeded
Succeeded(field, name) == CallsOf("c1")[field][name] + CallsOf("c2")[field][name]

\* C39: whatever the interleaving of the calls, a counter of the post holds
\* the number of increments that succeeded less the number of decrements
\* that succeeded (it starts from zero), and every increment that reaches the
\* store while the post exists succeeds.
C39_NoLostUpdates ==
    /\ [](\A name \in CalledCounters :
             CountOf(posts, CountedPost, name) = Succeeded("incs", name) - Succeeded("decs", name))
    /\ [][\A c \in Callers :
             (CommitCall(c) /\ CallsOf(c).call[1] = "inc" /\ CountedPost \in DOMAIN posts)
             => last' = "ok"
         ]_vars

\* two increments of one caller and a decrement of the other have succeeded
\* on the flag counter, and a decrement of the other has failed
C39_Witness ==
    /\ CallsOf("c1").incs["flagCount"] = 2
    /\ CallsOf("c2").decs["flagCount"] = 1
    /\ CallsOf("c2").made = 2 /\ CallsOf("c2").call = NoCall
    /\ CountOf(posts, CountedPost, "flagCount") = 1

----------------------------------------------------------------------------
(* The cursor of the album query *)

\* C40: the album query with the cursor after_rank = r returns exactly the
\* posts of the album whose stored rank key is greater than r, whatever
\* their status: a post of rank r is left out, and with any cursor from -1
\* up so is every post of rank -1.
C40_CursorExclusive ==
    \A album_id \in AlbumIds, r \in Ranks \cup {AlbumRankDefault} :
        LET after == generate_post_ids_in_album(posts, album_id, Unfiltered, r)
            members == Members(posts, album_id)
        IN  /\ after = {id \in members : posts[id].gsiK3SortKey > r}
            /\ \A id \in members :
                  (posts[id].gsiK3SortKey = r \/ posts[id].gsiK3SortKey = AlbumRankDefault)
                  => id \notin after

\* the album holds a pending post of rank 1, a completed post of rank 0 and
\* so the cursor 0 returns the pending post alone
C40_Witness ==
    /\ Members(posts, AlbumId) = {1, 2}
    /\ posts[1].postStatus = PENDING /\ posts[1].gsiK3SortKey = 1
    /\ posts[2].postStatus = COMPLETED /\ posts[2].gsiK3SortKey = 0
    /\ generate_post_ids_in_album(posts, AlbumId, Unfiltered, 0) = {1}
    /\ generate_post_ids_in_album(posts, AlbumId, Unfiltered, AlbumRankDefault) = {1, 2}

====
